---------------------------- MODULE Spec2Model ----------------------------
(***************************************************************************)
(* A model of mcp-gitlab-crunchtools: the identifier encoders (models.py), *)
(* the error taxonomy (errors.py) and the request/response normalisation   *)
(* of GitLabClient (client.py).                                            *)
(*                                                                         *)
(* Python strings are sequences of one-character strings, so that          *)
(* stripping, matching, replacing, slicing and percent-encoding are        *)
(* computed character by character, as the library routines compute them.  *)
(***************************************************************************)
EXTENDS Integers, Sequences, FiniteSets, TLC

VARIABLES
    environ,    \* os.environ, restricted to the variables the program reads
    pc,         \* "ready": the call has its inputs; "done": it has ended
    call,       \* the operation invoked and its inputs
    outcome,    \* what the call returned or raised; NoOutcome before it ends
    pool,       \* GitLabClient._client: "none", or "open" once created
    _config,    \* config.py's global _config: NoConfig or the Config built
    _client,    \* client.py's global _client: TRUE once a GitLabClient exists
    pools,      \* every httpx.AsyncClient constructed so far, in order
    sent        \* every outbound HTTP call issued so far, in order

vars == <<environ, pc, call, outcome, pool, _config, _client, pools, sent>>

(***************************************************************************)
(* Bounds of the model.                                                    *)
(***************************************************************************)
MaxIdLen == 3       \* longest identifier handed to an encoder

(***************************************************************************)
(* Characters and strings.                                                 *)
(***************************************************************************)
Digits == {"0", "1", "2", "3", "4", "5", "6", "7", "8", "9"}

Letters ==
    {"a", "b", "c", "d", "e", "f", "g", "h", "i", "j", "k", "l", "m",
     "n", "o", "p", "q", "r", "s", "t", "u", "v", "w", "x", "y", "z",
     "A", "B", "C", "D", "E", "F", "G", "H", "I", "J", "K", "L", "M",
     "N", "O", "P", "Q", "R", "S", "T", "U", "V", "W", "X", "Y", "Z"}

\* str.isspace() for the ASCII range
Whitespace == {" ", "\t", "\n", "\r", "\f"}

Range(s) == {s[i] : i \in DOMAIN s}

\* all strings over alphabet A of length 0..n
StringsUpTo(A, n) == UNION {[1..k -> A] : k \in 0..n}

RECURSIVE LStrip(_)
LStrip(s) ==
    IF s = <<>> \/ Head(s) \notin Whitespace THEN s ELSE LStrip(Tail(s))

RECURSIVE RStrip(_)
RStrip(s) ==
    IF s = <<>> \/ s[Len(s)] \notin Whitespace
    THEN s
    ELSE RStrip(SubSeq(s, 1, Len(s) - 1))

\* str.strip()
Strip(s) == RStrip(LStrip(s))

\* s[:n]
Prefix(s, n) == SubSeq(s, 1, IF Len(s) < n THEN Len(s) ELSE n)

\* needle in haystack
Contains(haystack, needle) ==
    \E i \in 1..(Len(haystack) - Len(needle) + 1) :
        SubSeq(haystack, i, i + Len(needle) - 1) = needle

DigitChar == <<"0", "1", "2", "3", "4", "5", "6", "7", "8", "9">>

DigitValue(c) == CHOOSE d \in 0..9 : DigitChar[d + 1] = c

RECURSIVE NatToStr(_)
NatToStr(n) ==
    IF n < 10
    THEN <<DigitChar[n + 1]>>
    ELSE NatToStr(n \div 10) \o <<DigitChar[(n % 10) + 1]>>

\* str(n) of an int
IntToStr(n) == IF n < 0 THEN <<"-">> \o NatToStr(0 - n) ELSE NatToStr(n)

UpperCase ==
    <<"A", "B", "C", "D", "E", "F", "G", "H", "I", "J", "K", "L", "M",
      "N", "O", "P", "Q", "R", "S", "T", "U", "V", "W", "X", "Y", "Z">>

LowerCase ==
    <<"a", "b", "c", "d", "e", "f", "g", "h", "i", "j", "k", "l", "m",
      "n", "o", "p", "q", "r", "s", "t", "u", "v", "w", "x", "y", "z">>

\* str.lower()
Lower(s) ==
    [i \in DOMAIN s |->
        IF \E j \in DOMAIN UpperCase : UpperCase[j] = s[i]
        THEN LowerCase[CHOOSE j \in DOMAIN UpperCase : UpperCase[j] = s[i]]
        ELSE s[i]]

\* variant with a fault: at most one trailing character is removed
RStripChars_once(s, chars) ==
    IF s = <<>> \/ s[Len(s)] \notin chars THEN s ELSE SubSeq(s, 1, Len(s) - 1)

\* str.rstrip(chars)
RECURSIVE RStripChars(_, _)
RStripChars(s, chars) ==
    IF s = <<>> \/ s[Len(s)] \notin chars
    THEN s
    ELSE RStripChars(SubSeq(s, 1, Len(s) - 1), chars)

\* str.find(c) + 1 for a set of characters: the first position holding one of
\* them, 0 when there is none
Find(s, chars) ==
    IF \E i \in DOMAIN s : s[i] \in chars
    THEN CHOOSE i \in DOMAIN s : s[i] \in chars /\ \A j \in 1..(i - 1) : s[j] \notin chars
    ELSE 0

\* str.rfind(c) + 1
RFind(s, c) ==
    IF \E i \in DOMAIN s : s[i] = c
    THEN CHOOSE i \in DOMAIN s : s[i] = c /\ \A j \in (i + 1)..Len(s) : s[j] # c
    ELSE 0

\* os.environ.get(name, default): the environment is a record of the
\* variables that are set
Getenv(env, name, default) == IF name \in DOMAIN env THEN env[name] ELSE default

(***************************************************************************)
(* Outcomes of a call: a returned value or a raised exception.            *)
(***************************************************************************)
NoOutcome == [kind |-> "none"]

Return(v) == [kind |-> "return", value |-> v]

\* the built-in ValueError; msg names the message, which no claim reads
RaiseValueError(m) == [kind |-> "raise", exc |-> "ValueError", msg |-> m]

(***************************************************************************)
(* models.py: the identifier encoders.                                     *)
(***************************************************************************)
\* re `$` matches at the end and before a newline that ends the string
DollarBody(s) ==
    IF Len(s) >= 2 /\ s[Len(s)] = "\n" THEN {s, SubSeq(s, 1, Len(s) - 1)} ELSE {s}

\* PROJECT_ID_NUMERIC = re.compile(r"^\d+$"), .match(s)
PROJECT_ID_NUMERIC(s) ==
    \E b \in DollarBody(s) : Len(b) >= 1 /\ \A i \in DOMAIN b : b[i] \in Digits

PathChars == Letters \cup Digits \cup {"-", "_", ".", "/"}

\* PROJECT_PATH_PATTERN = re.compile(r"^[a-zA-Z0-9\-_./]+$"), .match(s)
PROJECT_PATH_PATTERN(s) ==
    \E b \in DollarBody(s) : Len(b) >= 1 /\ \A i \in DOMAIN b : b[i] \in PathChars

\* urllib.parse: characters quote() never encodes
AlwaysSafe == Letters \cup Digits \cup {"_", ".", "-", "~"}

\* "%XX" of an ASCII character
PercentCode(c) ==
    CASE c = "/"  -> <<"%", "2", "F">>
      [] c = " "  -> <<"%", "2", "0">>
      [] c = ";"  -> <<"%", "3", "B">>
      [] c = "$"  -> <<"%", "2", "4">>
      [] c = "<"  -> <<"%", "3", "C">>
      [] c = "("  -> <<"%", "2", "8">>
      [] c = "*"  -> <<"%", "2", "A">>
      [] c = "%"  -> <<"%", "2", "5">>
      [] c = ":"  -> <<"%", "3", "A">>
      [] c = "\t" -> <<"%", "0", "9">>
      [] c = "\n" -> <<"%", "0", "A">>
      [] c = "\r" -> <<"%", "0", "D">>
      [] c = "\f" -> <<"%", "0", "C">>

RECURSIVE QuoteWith(_, _)
QuoteWith(s, safe) ==
    IF s = <<>>
    THEN <<>>
    ELSE (IF Head(s) \in AlwaysSafe \cup safe
          THEN <<Head(s)>>
          ELSE PercentCode(Head(s))) \o QuoteWith(Tail(s), safe)

\* variant with a fault: quote() with its default safe="/"
quote_default_safe(s) == QuoteWith(s, {"/"})

\* urllib.parse.quote(s, safe="")
quote(s) == QuoteWith(s, {})

encode_project_id(project_id) ==
    IF project_id = <<>> \/ Strip(project_id) = <<>>
    THEN RaiseValueError("project_id must not be empty")
    ELSE LET id == Strip(project_id) IN
         IF PROJECT_ID_NUMERIC(id)
         THEN Return(id)
         ELSE IF ~PROJECT_PATH_PATTERN(id)
              THEN RaiseValueError("project_id must be a numeric ID or a path")
              ELSE Return(quote(id))

\* variant with a fault: the group encoder without its charset check
encode_group_id_unchecked(group_id) ==
    IF group_id = <<>> \/ Strip(group_id) = <<>>
    THEN RaiseValueError("group_id must not be empty")
    ELSE LET id == Strip(group_id) IN
         IF PROJECT_ID_NUMERIC(id) THEN Return(id) ELSE Return(QuoteWith(id, {}))

encode_group_id(group_id) ==
    IF group_id = <<>> \/ Strip(group_id) = <<>>
    THEN RaiseValueError("group_id must not be empty")
    ELSE LET id == Strip(group_id) IN
         IF PROJECT_ID_NUMERIC(id)
         THEN Return(id)
         ELSE IF ~PROJECT_PATH_PATTERN(id)
              THEN RaiseValueError("group_id must be a numeric ID or a path")
              ELSE Return(quote(id))

(***************************************************************************)
(* The encoders' specification: Init draws the caller's identifier, each   *)
(* action is one call of an encoder.                                       *)
(***************************************************************************)
IdAlphabet == {"a", "7", "/", ".", " ", ";"}

Identifiers == StringsUpTo(IdAlphabet, MaxIdLen)

NoEnviron == [GITLAB_TOKEN |-> <<>>]

\* the unset global _config
NoConfig == [set |-> FALSE]

InitEncode ==
    /\ environ = NoEnviron
    /\ pc = "ready"
    /\ call \in [op : {"encode_project_id", "encode_group_id"}, id : Identifiers]
    /\ outcome = NoOutcome
    /\ pool = "none"
    /\ _config = NoConfig
    /\ _client = FALSE
    /\ pools = <<>>
    /\ sent = <<>>

EncodeProjectId ==
    /\ pc = "ready"
    /\ call.op = "encode_project_id"
    /\ outcome' = encode_project_id(call.id)
    /\ pc' = "done"
    /\ UNCHANGED <<environ, call, pool, _config, _client, pools, sent>>

EncodeGroupId ==
    /\ pc = "ready"
    /\ call.op = "encode_group_id"
    /\ outcome' = encode_group_id(call.id)
    /\ pc' = "done"
    /\ UNCHANGED <<environ, call, pool, _config, _client, pools, sent>>

NextEncode == EncodeProjectId \/ EncodeGroupId

SpecEncode == InitEncode /\ [][NextEncode]_vars

EncoderDone == pc = "done" /\ call.op \in {"encode_project_id", "encode_group_id"}

\* what the claims expect of an accepted identifier s: every "/" becomes
\* "%2F", every other character stays
RECURSIVE SlashEscaped(_)
SlashEscaped(s) ==
    IF s = <<>>
    THEN <<>>
    ELSE (IF Head(s) = "/" THEN <<"%", "2", "F">> ELSE <<Head(s)>>)
         \o SlashEscaped(Tail(s))

AllDigits(s) == Len(s) >= 1 /\ \A i \in DOMAIN s : s[i] \in Digits

\* C9 as stated: the result of an accepted identifier is the identifier itself
\* when it is all digits, and otherwise the identifier percent-encoded with no
\* safe characters; both encoders agree.
C9_AsStated ==
    (EncoderDone /\ outcome.kind = "return") =>
        /\ outcome.value = IF AllDigits(call.id) THEN call.id ELSE QuoteWith(call.id, {})
        /\ encode_project_id(call.id) = encode_group_id(call.id)

\* C9 amended: the result of an accepted identifier is computed from the
\* identifier with its leading and trailing whitespace removed: that trimmed
\* string unchanged when it is all digits, otherwise the trimmed string with
\* every "/" as "%2F" and every letter, digit, "-", "_", "." unchanged; both
\* encoders return the same result for the same input.
C9_EncodesTrimmed ==
    (EncoderDone /\ outcome.kind = "return") =>
        LET s == Strip(call.id) IN
        /\ outcome.value = IF AllDigits(s) THEN s ELSE SlashEscaped(s)
        /\ Range(s) \subseteq PathChars
        /\ encode_project_id(call.id) = encode_group_id(call.id)

\* C9 witness: a padded path with a slash has been encoded
C9_Witness ==
    /\ EncoderDone
    /\ outcome.kind = "return"
    /\ call.id # Strip(call.id)
    /\ "/" \in Range(call.id)
    /\ Contains(outcome.value, <<"%", "2", "F">>)

\* C10 as stated: an identifier that is empty, whitespace-only or contains any
\* character outside letters, digits, "-", "_", ".", "/" is rejected by both
\* encoders, which reject the same inputs.
C10_AsStated ==
    (EncoderDone /\ (Strip(call.id) = <<>> \/ ~(Range(call.id) \subseteq PathChars))) =>
        /\ outcome.kind = "raise"
        /\ encode_project_id(call.id).kind = encode_group_id(call.id).kind

\* C10 amended: an identifier that, once its leading and trailing whitespace
\* is removed, is empty or contains any character outside letters, digits,
\* "-", "_", ".", "/" is rejected with ValueError by both encoders and nothing
\* is returned; the two encoders reject exactly the same inputs.
C10_RejectsTrimmed ==
    EncoderDone =>
        /\ (Strip(call.id) = <<>> \/ ~(Range(Strip(call.id)) \subseteq PathChars)) =>
              (outcome.kind = "raise" /\ outcome.exc = "ValueError")
        /\ encode_project_id(call.id).kind = encode_group_id(call.id).kind

\* C10 witness: an identifier with a forbidden character inside was rejected
C10_Witness ==
    /\ EncoderDone
    /\ call.op = "encode_group_id"
    /\ ";" \in Range(Strip(call.id))
    /\ outcome.kind = "raise"

(***************************************************************************)
(* errors.py: the error taxonomy.  An exception instance holds its class   *)
(* and its rendered text (the one argument handed to Exception.__init__).  *)
(***************************************************************************)
Raise(cls, rendered) == [kind |-> "raise", exc |-> cls, text |-> rendered]

Taxonomy ==
    {"ConfigurationError", "ValidationError", "GitLabApiError",
     "ProjectNotFoundError", "PermissionDeniedError", "RateLimitError"}

MASK == <<"*", "*", "*">>

\* str.find(old) + 1: where the first occurrence of old starts, 0 when there
\* is none
FindSub(s, old) ==
    IF \E i \in 1..(Len(s) - Len(old) + 1) : SubSeq(s, i, i + Len(old) - 1) = old
    THEN CHOOSE i \in 1..(Len(s) - Len(old) + 1) :
            /\ SubSeq(s, i, i + Len(old) - 1) = old
            /\ \A j \in 1..(i - 1) : SubSeq(s, j, j + Len(old) - 1) # old
    ELSE 0

\* what str.replace does at the first occurrence, which starts at i, and
\* what is left to go through
Spliced(s, i, old, new) ==
    [head |-> SubSeq(s, 1, i - 1) \o new, rest |-> SubSeq(s, i + Len(old), Len(s))]

\* str.replace(old, new) for a non-empty old: the occurrences are found left
\* to right and do not overlap
RECURSIVE Replace(_, _, _)
Replace(s, old, new) ==
    IF FindSub(s, old) = 0
    THEN s
    ELSE Spliced(s, FindSub(s, old), old, new).head
         \o Replace(Spliced(s, FindSub(s, old), old, new).rest, old, new)

API_ERROR_PREFIX ==
    <<"G", "i", "t", "L", "a", "b", " ", "A", "P", "I", " ",
      "e", "r", "r", "o", "r", " ">>

\* GitLabApiError.__init__(code, message), with env the process environment
\* at the time of construction
GitLabApiError(env, code, message) ==
    LET token == Getenv(env, "GITLAB_TOKEN", <<>>)
        safe_message == IF token # <<>> THEN Replace(message, token, MASK) ELSE message
    IN  Raise("GitLabApiError",
              API_ERROR_PREFIX \o IntToStr(code) \o <<":", " ">> \o safe_message)

NOT_FOUND_PREFIX ==
    <<"P", "r", "o", "j", "e", "c", "t", " ", "n", "o", "t", " ",
      "f", "o", "u", "n", "d", " ", "o", "r", " ", "n", "o", "t", " ",
      "a", "c", "c", "e", "s", "s", "i", "b", "l", "e", ":", " ">>

\* identifier[:40]
MAX_IDENTIFIER_SHOWN == 40

\* variant with a fault: the identifier is rendered whole
ProjectNotFoundError_untruncated(identifier) ==
    Raise("ProjectNotFoundError", NOT_FOUND_PREFIX \o identifier)

\* ProjectNotFoundError.__init__(identifier)
ProjectNotFoundError(identifier) ==
    LET safe_id == IF Len(identifier) > MAX_IDENTIFIER_SHOWN
                   THEN Prefix(identifier, MAX_IDENTIFIER_SHOWN) \o <<".", ".", ".">>
                   ELSE identifier
    IN  Raise("ProjectNotFoundError", NOT_FOUND_PREFIX \o safe_id)

PERMISSION_PREFIX ==
    <<"P", "e", "r", "m", "i", "s", "s", "i", "o", "n", " ",
      "d", "e", "n", "i", "e", "d", ".", " ",
      "R", "e", "q", "u", "i", "r", "e", "d", " ", "s", "c", "o", "p", "e", ":", " ">>

\* PermissionDeniedError.__init__(required_scope)
PermissionDeniedError(required_scope) ==
    Raise("PermissionDeniedError", PERMISSION_PREFIX \o required_scope)

\* the absent value of an optional argument or header
None == [none |-> TRUE]

\* RateLimitError.__init__(retry_after): retry_after is None or [int |-> n]
RateLimitError(retry_after) ==
    LET msg == <<"R", "a", "t", "e", " ", "l", "i", "m", "i", "t", " ",
                 "e", "x", "c", "e", "e", "d", "e", "d", ".">>
    IN  Raise("RateLimitError",
              IF retry_after # None /\ retry_after.int # 0
              THEN msg \o <<" ", "R", "e", "t", "r", "y", " ", "a", "f", "t", "e", "r", " ">>
                       \o IntToStr(retry_after.int)
                       \o <<" ", "s", "e", "c", "o", "n", "d", "s", ".">>
              ELSE msg)

(***************************************************************************)
(* The specification of GitLabApiError: Init draws the live token, the     *)
(* code and the message; the action constructs the error.                  *)
(***************************************************************************)
MaxTokenLen == 2    \* longest secret token
MaxMsgLen == 3      \* longest message handed to an error

\* "r" occurs in the fixed prefix of the error text, "*" in the mask
TokenAlphabet == {"k", "*", "r"}

Tokens == StringsUpTo(TokenAlphabet, MaxTokenLen) \ {<<>>}

Messages == StringsUpTo(TokenAlphabet, MaxMsgLen)

ErrorCodes == {0, 404, 500}

InitApiError ==
    /\ environ \in [GITLAB_TOKEN : Tokens]
    /\ pc = "ready"
    /\ call \in [op : {"GitLabApiError"}, code : ErrorCodes, message : Messages]
    /\ outcome = NoOutcome
    /\ pool = "none"
    /\ _config = NoConfig
    /\ _client = FALSE
    /\ pools = <<>>
    /\ sent = <<>>

ConstructGitLabApiError ==
    /\ pc = "ready"
    /\ call.op = "GitLabApiError"
    /\ outcome' = GitLabApiError(environ, call.code, call.message)
    /\ pc' = "done"
    /\ UNCHANGED <<environ, call, pool, _config, _client, pools, sent>>

NextApiError == ConstructGitLabApiError

SpecApiError == InitApiError /\ [][NextApiError]_vars

\* C3: the rendered text of a GitLabApiError constructed while T is the live
\* token never contains T, whatever the code and the message.
C3_TextHidesToken ==
    (pc = "done" /\ call.op = "GitLabApiError" /\ environ.GITLAB_TOKEN # <<>>) =>
        ~Contains(outcome.text, environ.GITLAB_TOKEN)

(***************************************************************************)
(* JSON values, as response.json() yields them and as the client returns   *)
(* them: a dict is an object, a list an array.                             *)
(***************************************************************************)
JNull == [t |-> "null"]
JBool(b) == [t |-> "bool", b |-> b]
JNum(n) == [t |-> "number", n |-> n]
JStr(s) == [t |-> "string", s |-> s]
JArr(items) == [t |-> "array", items |-> items]
JObj(fields) == [t |-> "object", fields |-> fields]

\* the keys of the model's objects, in the order a dict of them is printed,
\* and their characters
KeyOrder == <<"id", "message", "error", "base">>

KeyChars(k) ==
    CASE k = "id"      -> <<"i", "d">>
      [] k = "message" -> <<"m", "e", "s", "s", "a", "g", "e">>
      [] k = "error"   -> <<"e", "r", "r", "o", "r">>
      [] k = "base"    -> <<"b", "a", "s", "e">>

RECURSIVE PyRepr(_), ReprItems(_), ReprFields(_, _)

\* repr(v)
PyRepr(v) ==
    CASE v.t = "null"   -> <<"N", "o", "n", "e">>
      [] v.t = "bool"   -> IF v.b THEN <<"T", "r", "u", "e">>
                                  ELSE <<"F", "a", "l", "s", "e">>
      [] v.t = "number" -> IntToStr(v.n)
      [] v.t = "string" -> <<"'">> \o v.s \o <<"'">>
      [] v.t = "array"  -> <<"[">> \o ReprItems(v.items) \o <<"]">>
      [] v.t = "object" ->
            <<"{">>
            \o ReprFields(v.fields, SelectSeq(KeyOrder, LAMBDA k : k \in DOMAIN v.fields))
            \o <<"}">>

ReprItems(items) ==
    IF items = <<>>
    THEN <<>>
    ELSE PyRepr(Head(items))
         \o (IF Tail(items) = <<>> THEN <<>> ELSE <<",", " ">> \o ReprItems(Tail(items)))

ReprFields(fields, keys) ==
    IF keys = <<>>
    THEN <<>>
    ELSE <<"'">> \o KeyChars(Head(keys)) \o <<"'", ":", " ">> \o PyRepr(fields[Head(keys)])
         \o (IF Tail(keys) = <<>> THEN <<>> ELSE <<",", " ">> \o ReprFields(fields, Tail(keys)))

\* str(v)
PyStr(v) == IF v.t = "string" THEN v.s ELSE PyRepr(v)

(***************************************************************************)
(* Header values and int().                                                *)
(***************************************************************************)
\* headers.get(name): an absent header, or a header with its value
Absent == [present |-> FALSE, value |-> <<>>]
Hdr(v) == [present |-> TRUE, value |-> v]

\* `if value:` on the result of headers.get(name)
Truthy(h) == h.present /\ h.value # <<>>

RECURSIVE DigitsToNat(_)
DigitsToNat(s) ==
    IF s = <<>> THEN 0 ELSE 10 * DigitsToNat(SubSeq(s, 1, Len(s) - 1)) + DigitValue(s[Len(s)])

\* int(s): surrounding whitespace and one sign are accepted; anything else
\* than decimal digits raises ValueError (ok = FALSE)
ParseInt(s) ==
    LET body     == Strip(s)
        signed   == body # <<>> /\ Head(body) \in {"+", "-"}
        digits   == IF signed THEN Tail(body) ELSE body
    IN  IF AllDigits(digits)
        THEN [ok |-> TRUE,
              int |-> IF signed /\ Head(body) = "-"
                      THEN 0 - DigitsToNat(digits)
                      ELSE DigitsToNat(digits)]
        ELSE [ok |-> FALSE, int |-> 0]

\* a header that is present, non-empty and no integer
Malformed(h) == Truthy(h) /\ ~ParseInt(h.value).ok

(***************************************************************************)
(* client.py: GitLabClient._request and its helpers.  A response is        *)
(*   [status, headers, body]; body is [kind |-> "json", value |-> v] when  *)
(* response.json() yields v and [kind |-> "raw", text |-> s] when it       *)
(* raises ValueError (s is response.text).  The text of a JSON body is its *)
(* serialisation, kept as the value it serialises.                         *)
(***************************************************************************)
MAX_RESPONSE_SIZE == 10485760

\* an outcome with the record of what the call did to the response:
\* read = the body was read or parsed; classified = status classification ran
Did(o, read, classified) == [read |-> read, classified |-> classified] @@ o

\* response.text
ResponseText(body) ==
    IF body.kind = "raw" THEN JStr(body.text) ELSE [t |-> "json-text", of |-> body.value]

UNKNOWN_ERROR == <<"U", "n", "k", "n", "o", "w", "n", " ", "e", "r", "r", "o", "r">>

\* response.text[:200]
MAX_RAW_ERROR_TEXT == 200

\* lines 171-184: the message extracted from the body of an error response
ExtractErrorMessage(body) ==
    IF body.kind = "json"
    THEN LET data == body.value IN
         IF data.t = "object"
         THEN LET raw_msg == IF "message" \in DOMAIN data.fields THEN data.fields.message
                             ELSE IF "error" \in DOMAIN data.fields THEN data.fields.error
                             ELSE JNull
              IN  IF raw_msg.t = "object" THEN PyStr(raw_msg)
                  ELSE IF raw_msg.t # "null" THEN PyStr(raw_msg)
                  ELSE UNKNOWN_ERROR
         ELSE PyStr(data)
    ELSE IF body.text # <<>> THEN Prefix(body.text, MAX_RAW_ERROR_TEXT) ELSE UNKNOWN_ERROR

VALID_TOKEN_SCOPE ==
    <<"V", "a", "l", "i", "d", " ", "P", "e", "r", "s", "o", "n", "a", "l", " ",
      "A", "c", "c", "e", "s", "s", " ", "T", "o", "k", "e", "n">>

REQUIRED_SCOPE ==
    <<"R", "e", "q", "u", "i", "r", "e", "d", " ", "p", "e", "r", "m", "i", "s", "s", "i", "o", "n",
      " ", "s", "c", "o", "p", "e">>

\* variant with a fault: the 403 branch is missing
_handle_error_response_no_403(env, response) ==
    LET status_code == response.status
        error_msg   == ExtractErrorMessage(response.body)
        retry_after == response.headers.retry_after
    IN  IF status_code = 401 THEN PermissionDeniedError(VALID_TOKEN_SCOPE)
        ELSE IF status_code = 404 THEN ProjectNotFoundError(error_msg)
        ELSE IF status_code = 429
             THEN IF Truthy(retry_after)
                  THEN IF ParseInt(retry_after.value).ok
                       THEN RateLimitError([int |-> ParseInt(retry_after.value).int])
                       ELSE RaiseValueError("invalid literal for int()")
                  ELSE RateLimitError(None)
        ELSE GitLabApiError(env, status_code, error_msg)

\* GitLabClient._handle_error_response(response): it always raises
_handle_error_response(env, response) ==
    LET status_code == response.status
        error_msg   == ExtractErrorMessage(response.body)
        retry_after == response.headers.retry_after
    IN  IF status_code = 401 THEN PermissionDeniedError(VALID_TOKEN_SCOPE)
        ELSE IF status_code = 403 THEN PermissionDeniedError(REQUIRED_SCOPE)
        ELSE IF status_code = 404 THEN ProjectNotFoundError(error_msg)
        ELSE IF status_code = 429
             THEN IF Truthy(retry_after)
                  THEN IF ParseInt(retry_after.value).ok
                       THEN RateLimitError([int |-> ParseInt(retry_after.value).int])
                       ELSE RaiseValueError("invalid literal for int()")
                  ELSE RateLimitError(None)
        ELSE GitLabApiError(env, status_code, error_msg)

\* the (header, key) pairs _wrap_list_response goes through
PAGINATION_HEADERS ==
    << <<"x_total", "total">>, <<"x_total_pages", "total_pages">>, <<"x_page", "page">>,
       <<"x_per_page", "per_page">>, <<"x_next_page", "next_page">>,
       <<"x_prev_page", "prev_page">> >>

\* variant with a fault: the pagination mapping is attached even when empty
_wrap_list_response_always(data, response) ==
    LET used == {i \in DOMAIN PAGINATION_HEADERS :
                    Truthy(response.headers[PAGINATION_HEADERS[i][1]])}
        value(i) == ParseInt(response.headers[PAGINATION_HEADERS[i][1]].value)
        pagination == [k \in {PAGINATION_HEADERS[i][2] : i \in used} |->
                          LET i == CHOOSE j \in used : PAGINATION_HEADERS[j][2] = k
                          IN  JNum(value(i).int)]
    IN  IF \E i \in used : ~value(i).ok
        THEN RaiseValueError("invalid literal for int()")
        ELSE Return(JObj([items |-> data, pagination |-> JObj(pagination)]))

\* GitLabClient._wrap_list_response(data, response)
_wrap_list_response(data, response) ==
    LET used == {i \in DOMAIN PAGINATION_HEADERS :
                    Truthy(response.headers[PAGINATION_HEADERS[i][1]])}
        value(i) == ParseInt(response.headers[PAGINATION_HEADERS[i][1]].value)
        pagination == [k \in {PAGINATION_HEADERS[i][2] : i \in used} |->
                          LET i == CHOOSE j \in used : PAGINATION_HEADERS[j][2] = k
                          IN  JNum(value(i).int)]
    IN  IF \E i \in used : ~value(i).ok
        THEN RaiseValueError("invalid literal for int()")
        ELSE IF DOMAIN pagination # {}
             THEN Return(JObj([items |-> data, pagination |-> JObj(pagination)]))
             ELSE Return(JObj([items |-> data]))

TEXT_PLAIN == <<"t", "e", "x", "t", "/", "p", "l", "a", "i", "n">>

REQUEST_TIMEOUT_TEXT ==
    <<"R", "e", "q", "u", "e", "s", "t", " ", "t", "i", "m", "e", "o", "u", "t", ":", " ">>

REQUEST_FAILED_TEXT ==
    <<"R", "e", "q", "u", "e", "s", "t", " ", "f", "a", "i", "l", "e", "d", ":", " ">>

RESPONSE_TOO_LARGE ==
    <<"R", "e", "s", "p", "o", "n", "s", "e", " ", "t", "o", "o", " ", "l", "a", "r", "g", "e">>

INVALID_JSON ==
    <<"I", "n", "v", "a", "l", "i", "d", " ", "J", "S", "O", "N", " ",
      "r", "e", "s", "p", "o", "n", "s", "e", ":", " ">>

\* str(e) of the decoder's ValueError
DECODE_ERROR == <<"E", "x", "p", "e", "c", "t", "i", "n", "g", " ", "v", "a", "l", "u", "e">>

\* response.is_success
is_success(response) == 200 <= response.status /\ response.status <= 299

\* variant with a fault: the ceiling itself is rejected
ExceedsLimit_inclusive(n) == n >= MAX_RESPONSE_SIZE

\* line 107: int(content_length) > MAX_RESPONSE_SIZE
ExceedsLimit(n) == n > MAX_RESPONSE_SIZE

\* lines 105-131 of GitLabClient._request: what becomes of a response
HandleResponse(env, response) ==
    LET content_length == response.headers.content_length
        content_type   == IF response.headers.content_type.present
                          THEN response.headers.content_type.value
                          ELSE <<>>
    IN  IF Truthy(content_length) /\ ~ParseInt(content_length.value).ok
        THEN Did(RaiseValueError("invalid literal for int()"), FALSE, FALSE)
        ELSE IF Truthy(content_length) /\ ExceedsLimit(ParseInt(content_length.value).int)
        THEN Did(GitLabApiError(env, 0, RESPONSE_TOO_LARGE), FALSE, FALSE)
        ELSE IF ~is_success(response)
        THEN Did(_handle_error_response(env, response), TRUE, TRUE)
        ELSE IF Contains(content_type, TEXT_PLAIN)
        THEN Did(Return(JObj([content |-> ResponseText(response.body)])), TRUE, FALSE)
        ELSE IF response.body.kind # "json"
        THEN Did(GitLabApiError(env, response.status, INVALID_JSON \o DECODE_ERROR),
                 TRUE, FALSE)
        ELSE IF response.body.value.t = "array"
        THEN Did(_wrap_list_response(response.body.value, response), TRUE, FALSE)
        ELSE Did(Return(response.body.value), TRUE, FALSE)

\* GitLabClient._request: reply is what client.request() does, a response
\* ([kind |-> "response", ...]) or a transport exception with its text
_request(env, reply) ==
    IF reply.kind = "timeout"
    THEN Did(GitLabApiError(env, 0, REQUEST_TIMEOUT_TEXT \o reply.text), FALSE, FALSE)
    ELSE IF reply.kind = "request_error"
    THEN Did(GitLabApiError(env, 0, REQUEST_FAILED_TEXT \o reply.text), FALSE, FALSE)
    ELSE HandleResponse(env, reply)

(***************************************************************************)
(* config.py and the singletons.  The environment is a record of the       *)
(* variables that are set; a Config is a record of its private fields.     *)
(***************************************************************************)
TOKEN_REQUIRED ==
    <<"G", "I", "T", "L", "A", "B", "_", "T", "O", "K", "E", "N", " ", "e", "n", "v",
      "i", "r", "o", "n", "m", "e", "n", "t", " ", "v", "a", "r", "i", "a", "b", "l",
      "e", " ", "r", "e", "q", "u", "i", "r", "e", "d", ".", " ", "C", "r", "e", "a",
      "t", "e", " ", "a", " ", "P", "e", "r", "s", "o", "n", "a", "l", " ", "A", "c",
      "c", "e", "s", "s", " ", "T", "o", "k", "e", "n", " ", "a", "t", " ", "h", "t",
      "t", "p", "s", ":", "/", "/", "g", "i", "t", "l", "a", "b", ".", "c", "o", "m",
      "/", "-", "/", "u", "s", "e", "r", "_", "s", "e", "t", "t", "i", "n", "g", "s",
      "/", "p", "e", "r", "s", "o", "n", "a", "l", "_", "a", "c", "c", "e", "s", "s",
      "_", "t", "o", "k", "e", "n", "s">>

INVALID_URL ==
    <<"I", "n", "v", "a", "l", "i", "d", " ", "G", "I", "T", "L", "A", "B", "_", "U",
      "R", "L", ":", " ", "m", "u", "s", "t", " ", "b", "e", " ", "a", " ", "v", "a",
      "l", "i", "d", " ", "U", "R", "L", " ", "(", "e", ".", "g", ".", " ", "h", "t",
      "t", "p", "s", ":", "/", "/", "g", "i", "t", "l", "a", "b", ".", "c", "o", "m",
      ")">>

HTTPS_REQUIRED ==
    <<"G", "I", "T", "L", "A", "B", "_", "U", "R", "L", " ", "m", "u", "s", "t", " ",
      "u", "s", "e", " ", "H", "T", "T", "P", "S", " ", "f", "o", "r", " ", "n", "o",
      "n", "-", "l", "o", "c", "a", "l", "h", "o", "s", "t", " ", "U", "R", "L", "s">>

DEFAULT_GITLAB_URL ==
    <<"h", "t", "t", "p", "s", ":", "/", "/", "g", "i", "t", "l", "a", "b", ".", "c", "o", "m">>

\* urllib.parse: the characters of a scheme
scheme_chars == Letters \cup Digits \cup {"+", "-", "."}

\* urllib.parse.urlsplit(url), for a url free of control characters and
\* whitespace: the scheme, lowered, is what precedes the first ":" when that
\* is a letter followed by scheme characters; the netloc is what follows a
\* leading "//" up to the first "/", "?" or "#"; a netloc with one square
\* bracket and not the other raises ValueError (ok = FALSE)
urlparse(url) ==
    LET i          == Find(url, {":"})
        has_scheme == /\ i > 1
                      /\ url[1] \in Letters
                      /\ \A j \in 1..(i - 1) : url[j] \in scheme_chars
        scheme     == IF has_scheme THEN Lower(SubSeq(url, 1, i - 1)) ELSE <<>>
        rest       == IF has_scheme THEN SubSeq(url, i + 1, Len(url)) ELSE url
        has_netloc == Len(rest) >= 2 /\ rest[1] = "/" /\ rest[2] = "/"
        after      == IF has_netloc THEN SubSeq(rest, 3, Len(rest)) ELSE <<>>
        delim      == Find(after, {"/", "?", "#"})
        netloc     == IF delim = 0 THEN after ELSE SubSeq(after, 1, delim - 1)
    IN  [ok     |-> ("[" \in Range(netloc)) = ("]" \in Range(netloc)),
         scheme |-> scheme,
         netloc |-> netloc]

\* ParseResult.hostname: the netloc without its userinfo and port, lowered;
\* None is the empty string here
hostname(netloc) ==
    LET hostinfo  == SubSeq(netloc, RFind(netloc, "@") + 1, Len(netloc))
        open_br   == Find(hostinfo, {"["})
        bracketed == SubSeq(hostinfo, open_br + 1, Len(hostinfo))
        close_br  == Find(bracketed, {"]"})
        colon     == Find(hostinfo, {":"})
        name      == IF open_br > 0
                     THEN IF close_br = 0 THEN bracketed
                          ELSE SubSeq(bracketed, 1, close_br - 1)
                     ELSE IF colon = 0 THEN hostinfo
                          ELSE SubSeq(hostinfo, 1, colon - 1)
    IN  Lower(name)

\* line 53: the hosts that may be reached without HTTPS
LOOPBACK_HOSTS ==
    {<<"l", "o", "c", "a", "l", "h", "o", "s", "t">>,
     <<"1", "2", "7", ".", "0", ".", "0", ".", "1">>,
     <<":", ":", "1">>}

HTTPS == <<"h", "t", "t", "p", "s">>

\* the values of Config._ssl_verify: False, True, or the path of a CA bundle
VerifyOff == [verify |-> "off", path |-> <<>>]
VerifyOn == [verify |-> "on", path |-> <<>>]
VerifyBundle(p) == [verify |-> "bundle", path |-> p]

\* line 65: the values of GITLAB_SSL_VERIFY that disable verification
SSL_VERIFY_DISABLED == {<<"f", "a", "l", "s", "e">>, <<"0">>, <<"n", "o">>}

\* lines 62-72: the TLS policy resolved from the environment
ResolveSslVerify(env) ==
    LET ssl_verify_env == Lower(Getenv(env, "GITLAB_SSL_VERIFY", <<"t", "r", "u", "e">>))
        ssl_cert_file  == Getenv(env, "SSL_CERT_FILE", <<>>)
    IN  IF ssl_verify_env \in SSL_VERIFY_DISABLED THEN VerifyOff
        ELSE IF ssl_cert_file # <<>> THEN VerifyBundle(ssl_cert_file)
        ELSE VerifyOn

\* Config.__init__: a ConfigurationError (or the ValueError of urlparse), or
\* the Config constructed
Config(env) ==
    LET token      == Getenv(env, "GITLAB_TOKEN", <<>>)
        gitlab_url == RStripChars(Getenv(env, "GITLAB_URL", DEFAULT_GITLAB_URL), {"/"})
        parsed     == urlparse(gitlab_url)
    IN  IF token = <<>>
        THEN Raise("ConfigurationError", TOKEN_REQUIRED)
        ELSE IF ~parsed.ok
        THEN RaiseValueError("Invalid IPv6 URL")
        ELSE IF parsed.scheme = <<>> \/ parsed.netloc = <<>>
        THEN Raise("ConfigurationError", INVALID_URL)
        ELSE IF parsed.scheme # HTTPS /\ hostname(parsed.netloc) \notin LOOPBACK_HOSTS
        THEN Raise("ConfigurationError", HTTPS_REQUIRED)
        ELSE Return([set |-> TRUE, token |-> token, base_url |-> gitlab_url,
                     ssl_verify |-> ResolveSslVerify(env)])

\* Config.__repr__ and Config.__str__: the same text
Config__repr__(config) ==
    <<"C", "o", "n", "f", "i", "g", "(", "g", "i", "t", "l", "a", "b", "_", "u", "r",
      "l", "=">>
    \o config.base_url
    \o
    <<",", " ", "t", "o", "k", "e", "n", "=", "*", "*", "*", ")">>

Config__str__(config) ==
    <<"C", "o", "n", "f", "i", "g", "(", "g", "i", "t", "l", "a", "b", "_", "u", "r",
      "l", "=">>
    \o config.base_url
    \o
    <<",", " ", "t", "o", "k", "e", "n", "=", "*", "*", "*", ")">>

\* Config.api_base_url
api_base_url(config) == config.base_url \o <<"/", "a", "p", "i", "/", "v", "4">>

\* lines 111-113 of config.py: a Config that was made is kept in _config
Kept(made, cell) ==
    [outcome |-> made,
     cell    |-> IF made.kind = "return" THEN made.value ELSE cell]

\* variant with a fault: a Config is constructed on every call
get_config_unmemoized(env, cell) == Kept(Config(env), cell)

\* get_config(): the outcome, and the global _config after it
get_config(env, cell) ==
    IF cell = NoConfig
    THEN Kept(Config(env), cell)
    ELSE [outcome |-> Return(cell), cell |-> cell]

\* GitLabClient.__init__ under get_client(): the client exists when
\* get_config() returned
Constructed(got) ==
    [outcome |-> got.outcome,
     cell    |-> got.cell,
     exists  |-> got.outcome.kind = "return"]

\* get_client(): GitLabClient() is constructed when there is none, and its
\* __init__ calls get_config()
get_client(env, cell, exists) ==
    IF exists
    THEN [outcome |-> Return(TRUE), cell |-> cell, exists |-> TRUE]
    ELSE Constructed(get_config(env, cell))

\* GitLabClient._get_client: the pool is created when there is none
_get_client(p) == IF p = "none" THEN "open" ELSE p

\* REQUEST_TIMEOUT, in seconds
REQUEST_TIMEOUT == 30

\* lines 49-57: httpx.AsyncClient(base_url, headers, timeout, verify) as
\* _get_client constructs it; closed records whether aclose() has run on it
AsyncClient(config) ==
    [base_url      |-> api_base_url(config),
     private_token |-> config.token,
     timeout       |-> REQUEST_TIMEOUT,
     verify        |-> VerifyOn,
     closed        |-> FALSE]

\* variant with a fault: a pool is constructed whether one is cached or not
_get_client_pools_unchecked(p, ps, config) == Append(ps, AsyncClient(config))

\* GitLabClient._get_client, its effect on the pools constructed so far:
\* with no cached handle a new one is constructed from the Config
_get_client_pools(p, ps, config) ==
    IF p = "none" THEN Append(ps, AsyncClient(config)) ELSE ps

\* variant with a fault: close() leaves the cached handle in place
close_keeps_handle(p) == p

\* GitLabClient.close, its effect on the cached handle
close(p) == "none"

\* GitLabClient.close, its effect on the pools: the cached one, which is the
\* last constructed, is closed
close_pools(p, ps) ==
    IF p # "none" THEN [ps EXCEPT ![Len(ps)].closed = TRUE] ELSE ps

\* variant with a fault: a timeout is answered by a second attempt
client_request_retried(via, request, reply) ==
    IF reply.kind = "timeout"
    THEN <<[via |-> via, request |-> request], [via |-> via, request |-> request]>>
    ELSE <<[via |-> via, request |-> request]>>

\* lines 93-99: the outbound calls one _request issues through pool number
\* via, whatever the reply: the one `await client.request(...)`
client_request(via, request, reply) == <<[via |-> via, request |-> request]>>

(***************************************************************************)
(* The specification of _request: Init draws the live token and what the   *)
(* server (or the transport) answers; the action is one call of _request.  *)
(***************************************************************************)
MaxBodyLen == 2     \* longest string inside a response body
MaxItems == 2       \* longest JSON array in a response body

\* tokens of characters that occur in none of the fixed texts
RequestTokens == {<<"z">>, <<"z", "#">>}

BodyStrings == StringsUpTo({"z", "#"}, MaxBodyLen)

\* the values a "message" or "error" field takes
FieldValues ==
    {JNull, JNum(7), JObj([base |-> JArr(<<JStr(<<"z", "#">>)>>)])}
    \cup {JStr(s) : s \in BodyStrings}

JsonScalars == {JNull, JNum(7), JBool(TRUE)} \cup {JStr(s) : s \in BodyStrings}

JsonObjects ==
    {JObj(<<>>), JObj([id |-> JNum(7)])}
    \cup {JObj([message |-> v]) : v \in FieldValues}
    \cup {JObj([error |-> v]) : v \in FieldValues}
    \cup {JObj([message |-> JNull, error |-> JStr(<<"z", "#">>)]),
          JObj([message |-> JStr(<<"#">>), error |-> JStr(<<"z">>)])}

JsonArrays ==
    {JArr(a) : a \in UNION {[1..n -> {JNum(7), JStr(<<"z", "#">>)}] : n \in 0..MaxItems}}

\* bodies that are no JSON text (the empty body among them)
RawBodies == {[kind |-> "raw", text |-> s] : s \in BodyStrings}

JsonBody(v) == [kind |-> "json", value |-> v]

ContentTypes ==
    {Absent,
     Hdr(<<"a", "p", "p", "l", "i", "c", "a", "t", "i", "o", "n", "/", "j", "s", "o", "n">>),
     Hdr(<<"t", "e", "x", "t", "/", "p", "l", "a", "i", "n", ";", " ",
           "c", "h", "a", "r", "s", "e", "t", "=", "u", "t", "f", "-", "8">>)}

IntHeader(n) == Hdr(IntToStr(n))

\* a number, but no integer literal: int("10485761.0") raises ValueError
NotAnInt == Hdr(<<"1", "0", "4", "8", "5", "7", "6", "1", ".", "0">>)

ContentLengths ==
    {Absent, Hdr(<<>>), IntHeader(12), IntHeader(MAX_RESPONSE_SIZE),
     IntHeader(MAX_RESPONSE_SIZE + 1), NotAnInt}

RetryAfters == {Absent, Hdr(<<>>), IntHeader(60), IntHeader(0), NotAnInt}

NoPagination ==
    [x_total |-> Absent, x_total_pages |-> Absent, x_page |-> Absent,
     x_per_page |-> Absent, x_next_page |-> Absent, x_prev_page |-> Absent]

\* GitLab sends x-next-page and x-prev-page empty on the last and first page
Paginations ==
    [x_total : {Absent, Hdr(<<>>), IntHeader(2), NotAnInt},
     x_total_pages : {Absent, IntHeader(1)},
     x_page : {Absent, IntHeader(1)},
     x_per_page : {Absent, IntHeader(20)},
     x_next_page : {Absent, Hdr(<<>>), IntHeader(3)},
     x_prev_page : {Absent, Hdr(<<>>)}]

Response(status, ct, cl, ra, pg, body) ==
    [kind |-> "response", status |-> status,
     headers |-> [content_type |-> ct, content_length |-> cl, retry_after |-> ra,
                  x_total |-> pg.x_total, x_total_pages |-> pg.x_total_pages,
                  x_page |-> pg.x_page, x_per_page |-> pg.x_per_page,
                  x_next_page |-> pg.x_next_page, x_prev_page |-> pg.x_prev_page],
     body |-> body]

SuccessStatuses == {200, 201, 204}

ErrorStatuses == {302, 400, 401, 403, 404, 429, 500}

AnyBodies == RawBodies \cup {JsonBody(v) : v \in JsonScalars \cup JsonObjects \cup JsonArrays}

RequestOf(reply) == [op |-> "_request", reply |-> reply]

\* error replies: any body; retry-after comes with a 429
InitErrorReply ==
    \E st \in ErrorStatuses, ct \in ContentTypes, cl \in ContentLengths,
       ra \in RetryAfters, b \in AnyBodies :
        /\ ra = Absent \/ st = 429
        /\ call = RequestOf(Response(st, ct, cl, ra, NoPagination, b))

\* successful replies whose body is no array
InitPlainReply ==
    \E st \in SuccessStatuses, ct \in ContentTypes, cl \in ContentLengths,
       b \in RawBodies \cup {JsonBody(v) : v \in JsonScalars \cup JsonObjects} :
        call = RequestOf(Response(st, ct, cl, Absent, NoPagination, b))

\* successful replies whose body is an array, with pagination headers
InitListReply ==
    \E st \in {200, 201}, ct \in ContentTypes \ {Absent},
       cl \in {Absent, IntHeader(12), IntHeader(MAX_RESPONSE_SIZE + 1)},
       pg \in Paginations, v \in JsonArrays :
        call = RequestOf(Response(st, ct, cl, Absent, pg, JsonBody(v)))

\* the transport raises instead of answering
InitTransportFailure ==
    \E k \in {"timeout", "request_error"}, e \in {<<>>, <<"z", "#">>} :
        call = RequestOf([kind |-> k, text |-> e])

InitRequest ==
    /\ environ \in [GITLAB_TOKEN : RequestTokens]
    /\ pc = "ready"
    /\ InitErrorReply \/ InitPlainReply \/ InitListReply \/ InitTransportFailure
    /\ outcome = NoOutcome
    /\ pool = "none"
    /\ _config = Config(environ).value
    /\ _client = TRUE
    /\ pools = <<>>
    /\ sent = <<>>

\* one call of GitLabClient._request (get, post, put and delete are aliases)
Request ==
    /\ pc = "ready"
    /\ call.op = "_request"
    /\ pool' = _get_client(pool)
    /\ pools' = _get_client_pools(pool, pools, _config)
    /\ sent' = sent \o client_request(Len(pools'), [method |-> "GET"], call.reply)
    /\ outcome' = _request(environ, call.reply)
    /\ pc' = "done"
    /\ UNCHANGED <<environ, call, _config, _client>>

NextRequest == Request

SpecRequest == InitRequest /\ [][NextRequest]_vars

\* _request has ended on a response of the server
Replied == pc = "done" /\ call.op = "_request" /\ call.reply.kind = "response"

\* the call raised exception class cls with this rendered text
Raised(cls, rendered) ==
    outcome.kind = "raise" /\ outcome.exc = cls /\ outcome.text = rendered

\* the response declares a content length above the ceiling
DeclaresOversize(response) ==
    /\ Truthy(response.headers.content_length)
    /\ ParseInt(response.headers.content_length.value).ok
    /\ ParseInt(response.headers.content_length.value).int > MAX_RESPONSE_SIZE

\* what the status alone selects for an error response
RaisedByStatus(response) ==
    LET msg == ExtractErrorMessage(response.body) IN
    CASE response.status \in {401, 403} ->
            outcome.kind = "raise" /\ outcome.exc = "PermissionDeniedError"
      [] response.status = 404 ->
            Raised("ProjectNotFoundError", ProjectNotFoundError(msg).text)
      [] response.status = 429 ->
            outcome.kind = "raise" /\ outcome.exc = "RateLimitError"
      [] OTHER ->
            Raised("GitLabApiError", GitLabApiError(environ, response.status, msg).text)

\* C1 as stated: a response whose status is not 2xx is never answered with a
\* normalized value, and what is raised depends on the status alone.
C1_AsStated ==
    (Replied /\ ~is_success(call.reply)) =>
        (outcome.kind = "raise" /\ RaisedByStatus(call.reply))

\* C1 amended: a response whose status is not 2xx is never answered with a
\* normalized value.  If it declares a content-length above 10,485,760 the
\* call raises GitLabApiError code 0 whatever the status; otherwise the status
\* selects the error (401, 403: PermissionDeniedError; 404:
\* ProjectNotFoundError with the extracted message; 429: RateLimitError; else
\* GitLabApiError with the status and the extracted message).  A content-length
\* or, on a 429, a retry-after that is no integer ends the call with a bare
\* ValueError instead.
C1_RaisesBySizeThenStatus ==
    (Replied /\ ~is_success(call.reply)) =>
        LET r == call.reply IN
        /\ outcome.kind = "raise"
        /\ CASE Malformed(r.headers.content_length) -> outcome.exc = "ValueError"
             [] DeclaresOversize(r) ->
                    Raised("GitLabApiError", GitLabApiError(environ, 0, RESPONSE_TOO_LARGE).text)
             [] r.status = 429 /\ Malformed(r.headers.retry_after) -> outcome.exc = "ValueError"
             [] OTHER -> RaisedByStatus(r)

\* C1 witness: a 404 of ordinary size has raised ProjectNotFoundError with the
\* message of its body
C1_Witness ==
    /\ Replied
    /\ call.reply.status = 404
    /\ call.reply.body = JsonBody(JObj([message |-> JStr(<<"#">>)]))
    /\ Raised("ProjectNotFoundError", NOT_FOUND_PREFIX \o <<"#">>)

DELETED == JObj([status |-> JStr(<<"d", "e", "l", "e", "t", "e", "d">>)])

\* C2: a 204 response is answered with {"status": "deleted"}, whatever its
\* content-type and body, and nothing is raised.
C2_204ReturnsDeleted ==
    (Replied /\ call.reply.status = 204) =>
        (outcome.kind = "return" /\ outcome.value = DELETED)

\* C4: whatever the server sends, the rendered message of the taxonomy error
\* that _request raises does not contain the secret token.
C4_RaisedTextHidesToken ==
    (pc = "done" /\ call.op = "_request" /\ outcome.kind = "raise"
     /\ outcome.exc \in Taxonomy) =>
        ~Contains(outcome.text, environ.GITLAB_TOKEN)

ExpectedPagination(response) ==
    LET hdr(k) == CASE k = "total"       -> response.headers.x_total
                    [] k = "total_pages" -> response.headers.x_total_pages
                    [] k = "page"        -> response.headers.x_page
                    [] k = "per_page"    -> response.headers.x_per_page
                    [] k = "next_page"   -> response.headers.x_next_page
                    [] k = "prev_page"   -> response.headers.x_prev_page
        keys == {k \in {"total", "total_pages", "page", "per_page", "next_page", "prev_page"} :
                    hdr(k).present /\ hdr(k).value # <<>>}
    IN  [k \in keys |-> JNum(ParseInt(hdr(k).value).int)]

ListResultIsExpected(response) ==
    /\ outcome.kind = "return"
    /\ outcome.value.t = "object"
    /\ "items" \in DOMAIN outcome.value.fields
    /\ outcome.value.fields.items = response.body.value
    /\ IF DOMAIN ExpectedPagination(response) = {}
       THEN DOMAIN outcome.value.fields = {"items"}
       ELSE /\ DOMAIN outcome.value.fields = {"items", "pagination"}
            /\ outcome.value.fields.pagination = JObj(ExpectedPagination(response))

IsJsonArrayBody(response) ==
    response.body.kind = "json" /\ response.body.value.t = "array"

\* C7 as stated: every 2xx response whose JSON body is an array is answered
\* with a mapping of 'items' (the array, in order) and of a 'pagination' that
\* has a key exactly for each x-* header that is present and non-empty.
C7_AsStated ==
    (Replied /\ is_success(call.reply) /\ IsJsonArrayBody(call.reply)) =>
        ListResultIsExpected(call.reply)

SaysTextPlain(response) ==
    response.headers.content_type.present
    /\ Contains(response.headers.content_type.value, TEXT_PLAIN)

\* C7 amended: a 2xx response whose body is a JSON array, whose content-type
\* does not contain text/plain and which declares no content-length above
\* 10,485,760 is answered with a mapping of 'items' (the array, in order) and
\* of a 'pagination' that has a key exactly for each x-* header that is
\* present and non-empty, with its integer value, and no 'pagination' key when
\* there is none; if one of these headers (or content-length) is no integer
\* the call ends with a bare ValueError instead.
C7_ListWrapped ==
    (Replied /\ is_success(call.reply) /\ IsJsonArrayBody(call.reply)
     /\ ~SaysTextPlain(call.reply) /\ ~DeclaresOversize(call.reply)) =>
        LET h == call.reply.headers IN
        IF \E x \in {h.content_length, h.x_total, h.x_total_pages, h.x_page,
                     h.x_per_page, h.x_next_page, h.x_prev_page} : Malformed(x)
        THEN outcome.kind = "raise" /\ outcome.exc = "ValueError"
        ELSE ListResultIsExpected(call.reply)

\* C7 witness: a list with x-total 2 and an empty x-next-page has been wrapped
\* with a pagination of total alone
C7_Witness ==
    /\ Replied
    /\ IsJsonArrayBody(call.reply)
    /\ Len(call.reply.body.value.items) = 2
    /\ call.reply.headers.x_next_page = Hdr(<<>>)
    /\ outcome.kind = "return"
    /\ outcome.value.t = "object"
    /\ "pagination" \in DOMAIN outcome.value.fields
    /\ outcome.value.fields.pagination = JObj([total |-> JNum(2)])

\* C8: every value _request returns is a mapping.
C8_ReturnsMapping ==
    (pc = "done" /\ call.op = "_request" /\ outcome.kind = "return") =>
        outcome.value.t = "object"

(***************************************************************************)
(* tools/issues.py: a tool call, create_issue_note(project_id, issue_iid,  *)
(* body).  Init draws the environment, the caller's arguments and what the *)
(* server answers if it is asked; the action is the whole tool call.       *)
(***************************************************************************)
NoteBodies == {<<>>, <<" ">>, <<"a">>}

\* a 2xx reply with an object, a 404, a 429 with no usable retry-after, an
\* unparseable body, malformed content-length and x-total headers, a timeout
ToolReplies ==
    {Response(201, Absent, Absent, Absent, NoPagination, JsonBody(JObj([id |-> JNum(7)]))),
     Response(404, Absent, Absent, Absent, NoPagination,
              JsonBody(JObj([message |-> JStr(<<"z", "#">>)]))),
     Response(429, Absent, Absent, NotAnInt, NoPagination, JsonBody(JObj(<<>>))),
     Response(429, Absent, Absent, IntHeader(60), NoPagination, JsonBody(JObj(<<>>))),
     Response(200, Absent, Absent, Absent, NoPagination, [kind |-> "raw", text |-> <<"z">>]),
     Response(200, Absent, NotAnInt, Absent, NoPagination, JsonBody(JObj(<<>>))),
     Response(200, Absent, Absent, Absent, [NoPagination EXCEPT !.x_total = NotAnInt],
              JsonBody(JArr(<<>>))),
     [kind |-> "timeout", text |-> <<>>]}

InitTool ==
    /\ environ \in [GITLAB_TOKEN : {<<>>, <<"z">>}]
    /\ pc = "ready"
    /\ call \in [op : {"create_issue_note"}, project_id : Identifiers,
                 body : NoteBodies, reply : ToolReplies]
    /\ outcome = NoOutcome
    /\ pool = "none"
    /\ _config = NoConfig
    /\ _client = FALSE
    /\ pools = <<>>
    /\ sent = <<>>

\* create_issue_note: the body check, get_client(), encode_project_id, then
\* client.post(), each failure ending the call
CreateIssueNote ==
    /\ pc = "ready"
    /\ call.op = "create_issue_note"
    /\ pc' = "done"
    /\ UNCHANGED <<environ, call>>
    /\ IF call.body = <<>> \/ Strip(call.body) = <<>>
       THEN /\ outcome' = RaiseValueError("Note body must not be empty")
            /\ UNCHANGED <<pool, _config, _client, pools, sent>>
       ELSE \E got \in {get_client(environ, _config, _client)} :
            /\ _config' = got.cell
            /\ _client' = got.exists
            /\ IF got.outcome.kind = "raise"
               THEN outcome' = got.outcome /\ UNCHANGED <<pool, pools, sent>>
               ELSE IF encode_project_id(call.project_id).kind = "raise"
               THEN /\ outcome' = encode_project_id(call.project_id)
                    /\ UNCHANGED <<pool, pools, sent>>
               ELSE /\ pool' = _get_client(pool)
                    /\ pools' = _get_client_pools(pool, pools, got.cell)
                    /\ sent' = sent \o client_request(
                                   Len(pools'),
                                   [method  |-> "POST",
                                    project |-> encode_project_id(call.project_id).value,
                                    json    |-> [body |-> call.body]],
                                   call.reply)
                    /\ outcome' = _request(environ, call.reply)

NextTool == CreateIssueNote

SpecTool == InitTool /\ [][NextTool]_vars

\* C5: every failure of a tool call surfaces as one of the six taxonomy kinds.
C5_FailuresAreTaxonomy ==
    (pc = "done" /\ call.op = "create_issue_note" /\ outcome.kind = "raise") =>
        outcome.exc \in Taxonomy

(***************************************************************************)
(* The specification of Config: Init draws the environment (the token, the *)
(* base URL put together from its parts, the TLS variables); each action   *)
(* constructs a Config from it, and two of them render it.                 *)
(***************************************************************************)
MaxSlashes == 2     \* most slashes that end a configured base URL

\* a variable of the environment: unset, or set to a value
Unset == [set |-> FALSE, value |-> <<>>]
SetTo(v) == [set |-> TRUE, value |-> v]

\* "com" occurs in a base URL, "*" in the mask, "z" in no text
ConfigTokens == {<<"z">>, <<"c", "o", "m">>, <<"*">>}

TokenSettings == {Unset, SetTo(<<>>)} \cup {SetTo(t) : t \in ConfigTokens}

\* the parts of a base URL, each with what it means; name is the scheme in
\* lower case, host the host in lower case and without brackets
UrlSchemes ==
    {[text |-> <<>>, name |-> <<>>],
     [text |-> <<"h", "t", "t", "p", "s", ":", "/", "/">>, name |-> <<"h", "t", "t", "p", "s">>],
     [text |-> <<"H", "T", "T", "P", "S", ":", "/", "/">>, name |-> <<"h", "t", "t", "p", "s">>],
     [text |-> <<"h", "t", "t", "p", ":", "/", "/">>, name |-> <<"h", "t", "t", "p">>],
     [text |-> <<"f", "t", "p", ":", "/", "/">>, name |-> <<"f", "t", "p">>]}

UrlUsers == {<<>>, <<"c", "o", "m", "@">>}

UrlHosts ==
    {[text |-> <<>>, host |-> <<>>],
     [text |-> <<"l", "o", "c", "a", "l", "h", "o", "s", "t">>, host |-> <<"l", "o", "c", "a", "l", "h", "o", "s", "t">>],
     [text |-> <<"L", "O", "C", "A", "L", "H", "O", "S", "T">>, host |-> <<"l", "o", "c", "a", "l", "h", "o", "s", "t">>],
     [text |-> <<"1", "2", "7", ".", "0", ".", "0", ".", "1">>, host |-> <<"1", "2", "7", ".", "0", ".", "0", ".", "1">>],
     [text |-> <<"[", ":", ":", "1", "]">>, host |-> <<":", ":", "1">>],
     [text |-> <<"[", ":", ":", "1">>, host |-> <<":", ":", "1">>],
     [text |-> <<"g", "i", "t", "l", "a", "b", ".", "c", "o", "m">>, host |-> <<"g", "i", "t", "l", "a", "b", ".", "c", "o", "m">>],
     [text |-> <<"l", "o", "c", "a", "l", "h", "o", "s", "t", ".", "x">>, host |-> <<"l", "o", "c", "a", "l", "h", "o", "s", "t", ".", "x">>]}

UrlPorts == {<<>>, <<":", "8", "0">>}

Slashes(n) == [i \in 1..n |-> "/"]

UrlTails == {Slashes(n) : n \in 0..MaxSlashes} \cup {<<"/", "a">>}

UrlParts == [scheme : UrlSchemes, user : UrlUsers, host : UrlHosts, port : UrlPorts,
             tail : UrlTails]

UrlText(u) == u.scheme.text \o u.user \o u.host.text \o u.port \o u.tail

TlsFlags ==
    {Unset, SetTo(<<>>), SetTo(<<"f", "a", "l", "s", "e">>), SetTo(<<"F", "A", "L", "S", "E">>), SetTo(<<"0">>), SetTo(<<"n", "o">>),
     SetTo(<<"t", "r", "u", "e">>)}

CertFiles == {Unset, SetTo(<<>>), SetTo(<<"/", "c", "a">>)}

\* the record of the variables that are set
Environ(token, url, flag, cert) ==
    LET names == {n \in {"GITLAB_TOKEN", "GITLAB_URL", "GITLAB_SSL_VERIFY", "SSL_CERT_FILE"} :
                     CASE n = "GITLAB_TOKEN" -> token.set
                       [] n = "GITLAB_URL" -> url.set
                       [] n = "GITLAB_SSL_VERIFY" -> flag.set
                       [] n = "SSL_CERT_FILE" -> cert.set}
    IN  [n \in names |->
            CASE n = "GITLAB_TOKEN" -> token.value
              [] n = "GITLAB_URL" -> url.value
              [] n = "GITLAB_SSL_VERIFY" -> flag.value
              [] n = "SSL_CERT_FILE" -> cert.value]

ConfigOps == {"Config", "repr", "str"}

\* the base URL is drawn, the TLS variables are unset
InitConfigUrl ==
    \E op \in ConfigOps, t \in TokenSettings, u \in UrlParts :
        /\ environ = Environ(t, SetTo(UrlText(u)), Unset, Unset)
        /\ call = [op |-> op, url |-> u]

\* the base URL is unset (the default), the TLS variables are drawn
InitConfigTls ==
    \E op \in ConfigOps, t \in TokenSettings, f \in TlsFlags, c \in CertFiles :
        /\ environ = Environ(t, Unset, f, c)
        /\ call = [op |-> op,
                   url |-> [scheme |-> [text |-> <<"h", "t", "t", "p", "s", ":", "/", "/">>, name |-> <<"h", "t", "t", "p", "s">>],
                            user |-> <<>>,
                            host |-> [text |-> <<"g", "i", "t", "l", "a", "b", ".", "c", "o", "m">>, host |-> <<"g", "i", "t", "l", "a", "b", ".", "c", "o", "m">>],
                            port |-> <<>>, tail |-> <<>>]]

InitConfig ==
    /\ InitConfigUrl \/ InitConfigTls
    /\ pc = "ready"
    /\ outcome = NoOutcome
    /\ pool = "none"
    /\ _config = NoConfig
    /\ _client = FALSE
    /\ pools = <<>>
    /\ sent = <<>>

\* Config()
ConstructConfig ==
    /\ pc = "ready"
    /\ call.op = "Config"
    /\ outcome' = Config(environ)
    /\ pc' = "done"
    /\ UNCHANGED <<environ, call, pool, _config, _client, pools, sent>>

\* repr(Config())
ReprConfig ==
    /\ pc = "ready"
    /\ call.op = "repr"
    /\ outcome' = IF Config(environ).kind = "return"
                  THEN Return(Config__repr__(Config(environ).value))
                  ELSE Config(environ)
    /\ pc' = "done"
    /\ UNCHANGED <<environ, call, pool, _config, _client, pools, sent>>

\* str(Config())
StrConfig ==
    /\ pc = "ready"
    /\ call.op = "str"
    /\ outcome' = IF Config(environ).kind = "return"
                  THEN Return(Config__str__(Config(environ).value))
                  ELSE Config(environ)
    /\ pc' = "done"
    /\ UNCHANGED <<environ, call, pool, _config, _client, pools, sent>>

NextConfig == ConstructConfig \/ ReprConfig \/ StrConfig

SpecConfig == InitConfig /\ [][NextConfig]_vars

\* the token the environment holds, empty when it holds none
TokenOf(env) == Getenv(env, "GITLAB_TOKEN", <<>>)

\* C11: Config() raises ConfigurationError exactly when the token is absent or
\* empty, or the base URL lacks a scheme or a host, or the scheme is not https
\* while the host is none of localhost, 127.0.0.1, ::1; in every other case it
\* returns a Config.
C11_FailsClosedExactly ==
    (pc = "done" /\ call.op = "Config") =>
        LET u == call.url
            must_fail ==
                \/ TokenOf(environ) = <<>>
                \/ u.scheme.name = <<>>
                \/ u.host.host = <<>>
                \/ (u.scheme.name # HTTPS /\ u.host.host \notin LOOPBACK_HOSTS)
        IN  IF must_fail
            THEN outcome.kind = "raise" /\ outcome.exc = "ConfigurationError"
            ELSE outcome.kind = "return"

\* C12: neither str(config) nor repr(config) contains the token, also when
\* the token occurs inside the base URL.
C12_ReprHidesToken ==
    (pc = "done" /\ call.op \in {"repr", "str"} /\ outcome.kind = "return") =>
        ~Contains(outcome.value, TokenOf(environ))

(***************************************************************************)
(* One call of _request, its outbound calls and its outcome                *)
(* (specification SpecRequest).                                            *)
(***************************************************************************)
RequestDone == pc = "done" /\ call.op = "_request"

TransportFailed == call.reply.kind \in {"timeout", "request_error"}

\* a transport failure surfaces as GitLabApiError with code 0
RaisedCodeZero ==
    /\ outcome.kind = "raise"
    /\ outcome.exc = "GitLabApiError"
    /\ Prefix(outcome.text, Len(API_ERROR_PREFIX) + 3) = API_ERROR_PREFIX \o <<"0", ":", " ">>

MaxCalls == 4       \* most calls made on one client

\* what the server or the transport answers a request of this client
ClientReplies ==
    {Response(200, Absent, Absent, Absent, NoPagination, JsonBody(JObj([id |-> JNum(7)]))),
     [kind |-> "timeout", text |-> <<>>]}

InitClient ==
    /\ \E f \in TlsFlags, c \in CertFiles : environ = Environ(SetTo(<<"z">>), Unset, f, c)
    /\ pc = "serving"
    /\ call = <<>>
    /\ outcome = NoOutcome
    /\ pool = "none"
    /\ _config = Config(environ).value
    /\ _client = TRUE
    /\ pools = <<>>
    /\ sent = <<>>

\* GitLabClient._request (through get, post, put or delete)
ClientRequest ==
    /\ pc = "serving"
    /\ Len(call) < MaxCalls
    /\ \E reply \in ClientReplies :
        /\ pool' = _get_client(pool)
        /\ pools' = _get_client_pools(pool, pools, _config)
        /\ sent' = sent \o client_request(Len(pools'), [method |-> "GET"], reply)
        /\ outcome' = _request(environ, reply)
    /\ call' = Append(call, "request")
    /\ UNCHANGED <<environ, pc, _config, _client>>

\* GitLabClient.close
ClientClose ==
    /\ pc = "serving"
    /\ Len(call) < MaxCalls
    /\ pools' = close_pools(pool, pools)
    /\ pool' = close(pool)
    /\ outcome' = Return(None)
    /\ call' = Append(call, "close")
    /\ UNCHANGED <<environ, pc, _config, _client, sent>>

NextClient == ClientRequest \/ ClientClose

SpecClient == InitClient /\ [][NextClient]_vars

\* C13: every pool the client has constructed verifies TLS as the Config
\* resolved it: not at all when the disable flag is set, else against the CA
\* bundle when one is set, else fully.
C13_PoolVerifyIsPolicy ==
    pc = "serving" =>
        /\ _config.ssl_verify = ResolveSslVerify(environ)
        /\ \A i \in DOMAIN pools : pools[i].verify = _config.ssl_verify

\* what the claim expects after a log of calls: whether a pool is cached, how
\* many pools have been constructed, and through which pool each request went
RECURSIVE Lifecycle(_)
Lifecycle(log) ==
    IF log = <<>>
    THEN [cached |-> FALSE, constructed |-> 0, vias |-> <<>>]
    ELSE LET before == Lifecycle(SubSeq(log, 1, Len(log) - 1))
             n      == IF before.cached THEN before.constructed
                       ELSE before.constructed + 1
         IN  IF log[Len(log)] = "request"
             THEN [cached |-> TRUE, constructed |-> n, vias |-> Append(before.vias, n)]
             ELSE [cached |-> FALSE, constructed |-> before.constructed,
                   vias |-> before.vias]

\* C14: for any order of request and close calls made one after the other, no
\* pool exists before the first request; a request with no cached pool
\* constructs one and goes through it; a request with a cached pool goes
\* through that one and constructs none; close() closes the cached pool and
\* clears the handle, and does nothing when there is none; so every pool but
\* the cached one is closed.
C14_Lifecycle ==
    pc = "serving" =>
        LET expected == Lifecycle(call) IN
        /\ Len(pools) = expected.constructed
        /\ (pool # "none") = expected.cached
        /\ [i \in DOMAIN sent |-> sent[i].via] = expected.vias
        /\ \A i \in DOMAIN pools :
              pools[i].closed = (i < Len(pools) \/ ~expected.cached)

\* C14 witness: after request, close, request a second pool is open, the first
\* is closed, and the second request went through the second
C14_Witness ==
    /\ pc = "serving"
    /\ call = <<"request", "close", "request">>
    /\ Len(pools) = 2
    /\ pools[1].closed
    /\ ~pools[2].closed
    /\ pool = "open"
    /\ sent[2].via = 2

(***************************************************************************)
(* models.py: the payload validators.  A payload is a function from the    *)
(* names of the keyword arguments handed to the model to their values,     *)
(* which are JSON values of the declared types (None is JNull).            *)
(***************************************************************************)
MAX_PROJECT_NAME_LENGTH == 255
MAX_TITLE_LENGTH == 500
MAX_DESCRIPTION_LENGTH == 50000
MAX_LABELS_LENGTH == 1000
MAX_BRANCH_LENGTH == 255
MAX_ASSIGNEES == 10

\* no min_length or max_length is declared
NoLimit == -1

\* pydantic.Field: required is `...`; nullable is `| None`; dflt is the default
Field(required, nullable, min_length, max_length, dflt) ==
    [required |-> required, nullable |-> nullable, min_length |-> min_length,
     max_length |-> max_length, dflt |-> dflt]

\* pydantic's ValidationError, a ValueError of its own; msg names the check
RaisePydantic(m) == [kind |-> "raise", exc |-> "pydantic.ValidationError", msg |-> m]

\* len() of a str or of a list
Size(v) == IF v.t = "string" THEN Len(v.s) ELSE IF v.t = "array" THEN Len(v.items) ELSE 0

\* BaseModel.__init__ with ConfigDict(extra="forbid"): an unknown name, a
\* missing required field, a None where none is allowed or a length outside
\* the declared limits rejects the payload as a whole
model_validate(fields, payload) ==
    LET rejected(name) ==
            IF name \notin DOMAIN payload
            THEN fields[name].required
            ELSE IF payload[name].t = "null"
            THEN ~fields[name].nullable
            ELSE \/ /\ fields[name].min_length # NoLimit
                    /\ Size(payload[name]) < fields[name].min_length
                 \/ /\ fields[name].max_length # NoLimit
                    /\ Size(payload[name]) > fields[name].max_length
    IN  IF DOMAIN payload \ DOMAIN fields # {}
        THEN RaisePydantic("extra_forbidden")
        ELSE IF \E name \in DOMAIN fields : rejected(name)
        THEN RaisePydantic("field")
        ELSE Return([name \in DOMAIN fields |->
                        IF name \in DOMAIN payload THEN payload[name]
                        ELSE fields[name].dflt])

CLOSE == <<"c", "l", "o", "s", "e">>
REOPEN == <<"r", "e", "o", "p", "e", "n">>

\* variant with a fault: any state_event passes
validate_state_event_any(v) == TRUE

\* validate_state_event(v): TRUE when v is returned, FALSE when it raises
validate_state_event(v) == v.t = "null" \/ v.s \in {CLOSE, REOPEN}

\* a model with the state_event validator
WithStateEvent(validated) ==
    IF validated.kind = "return" /\ ~validate_state_event(validated.value.state_event)
    THEN RaisePydantic("state_event must be 'close' or 'reopen'")
    ELSE validated

CreateIssueFields ==
    [title        |-> Field(TRUE, FALSE, 1, MAX_TITLE_LENGTH, JNull),
     description  |-> Field(FALSE, TRUE, NoLimit, MAX_DESCRIPTION_LENGTH, JNull),
     labels       |-> Field(FALSE, TRUE, NoLimit, MAX_LABELS_LENGTH, JNull),
     assignee_ids |-> Field(FALSE, TRUE, NoLimit, MAX_ASSIGNEES, JNull),
     milestone_id |-> Field(FALSE, TRUE, NoLimit, NoLimit, JNull),
     confidential |-> Field(FALSE, FALSE, NoLimit, NoLimit, JBool(FALSE))]

CreateIssueInput(payload) == model_validate(CreateIssueFields, payload)

UpdateIssueFields ==
    [title        |-> Field(FALSE, TRUE, 1, MAX_TITLE_LENGTH, JNull),
     description  |-> Field(FALSE, TRUE, NoLimit, MAX_DESCRIPTION_LENGTH, JNull),
     labels       |-> Field(FALSE, TRUE, NoLimit, MAX_LABELS_LENGTH, JNull),
     state_event  |-> Field(FALSE, TRUE, NoLimit, NoLimit, JNull),
     assignee_ids |-> Field(FALSE, TRUE, NoLimit, MAX_ASSIGNEES, JNull),
     milestone_id |-> Field(FALSE, TRUE, NoLimit, NoLimit, JNull),
     confidential |-> Field(FALSE, TRUE, NoLimit, NoLimit, JNull)]

UpdateIssueInput(payload) == WithStateEvent(model_validate(UpdateIssueFields, payload))

CreateMergeRequestFields ==
    [source_branch        |-> Field(TRUE, FALSE, 1, MAX_BRANCH_LENGTH, JNull),
     target_branch        |-> Field(TRUE, FALSE, 1, MAX_BRANCH_LENGTH, JNull),
     title                |-> Field(TRUE, FALSE, 1, MAX_TITLE_LENGTH, JNull),
     description          |-> Field(FALSE, TRUE, NoLimit, MAX_DESCRIPTION_LENGTH, JNull),
     labels               |-> Field(FALSE, TRUE, NoLimit, MAX_LABELS_LENGTH, JNull),
     assignee_ids         |-> Field(FALSE, TRUE, NoLimit, MAX_ASSIGNEES, JNull),
     reviewer_ids         |-> Field(FALSE, TRUE, NoLimit, MAX_ASSIGNEES, JNull),
     milestone_id         |-> Field(FALSE, TRUE, NoLimit, NoLimit, JNull),
     remove_source_branch |-> Field(FALSE, FALSE, NoLimit, NoLimit, JBool(FALSE))]

CreateMergeRequestInput(payload) == model_validate(CreateMergeRequestFields, payload)

UpdateMergeRequestFields ==
    [title                |-> Field(FALSE, TRUE, 1, MAX_TITLE_LENGTH, JNull),
     description          |-> Field(FALSE, TRUE, NoLimit, MAX_DESCRIPTION_LENGTH, JNull),
     labels               |-> Field(FALSE, TRUE, NoLimit, MAX_LABELS_LENGTH, JNull),
     state_event          |-> Field(FALSE, TRUE, NoLimit, NoLimit, JNull),
     assignee_ids         |-> Field(FALSE, TRUE, NoLimit, MAX_ASSIGNEES, JNull),
     reviewer_ids         |-> Field(FALSE, TRUE, NoLimit, MAX_ASSIGNEES, JNull),
     milestone_id         |-> Field(FALSE, TRUE, NoLimit, NoLimit, JNull),
     target_branch        |-> Field(FALSE, TRUE, 1, MAX_BRANCH_LENGTH, JNull),
     remove_source_branch |-> Field(FALSE, TRUE, NoLimit, NoLimit, JNull)]

UpdateMergeRequestInput(payload) ==
    WithStateEvent(model_validate(UpdateMergeRequestFields, payload))

(***************************************************************************)
(* The specification of the payload validators: Init draws the model and   *)
(* a payload whose fields sit at and around the declared limits; each      *)
(* action constructs one model from it.                                    *)
(***************************************************************************)
\* a text of n characters, a list of n ids
Text(n) == [i \in 1..n |-> "a"]
Ids(n) == [i \in 1..n |-> JNum(i)]

\* the keyword argument is not handed to the model
Omitted == [t |-> "omitted"]

Titles ==
    {Omitted, JNull, JStr(Text(0)), JStr(Text(1)), JStr(Text(MAX_TITLE_LENGTH)),
     JStr(Text(MAX_TITLE_LENGTH + 1))}

Descriptions ==
    {JNull, JStr(Text(MAX_DESCRIPTION_LENGTH)), JStr(Text(MAX_DESCRIPTION_LENGTH + 1))}

LabelStrings == {JNull, JStr(Text(MAX_LABELS_LENGTH)), JStr(Text(MAX_LABELS_LENGTH + 1))}

Branches ==
    {Omitted, JNull, JStr(Text(0)), JStr(Text(1)), JStr(Text(MAX_BRANCH_LENGTH)),
     JStr(Text(MAX_BRANCH_LENGTH + 1))}

IdLists == {JNull, JArr(Ids(MAX_ASSIGNEES)), JArr(Ids(MAX_ASSIGNEES + 1))}

StateEvents ==
    {Omitted, JNull, JStr(CLOSE), JStr(REOPEN), JStr(<<"m", "e", "r", "g", "e">>),
     JStr(<<>>)}

\* a field no model declares
Extras == {Omitted, JStr(<<"r", "e", "d">>)}

\* the payload of the arguments that are handed over
Payload(args) == [name \in {n \in DOMAIN args : args[n] # Omitted} |-> args[name]]

ValidatorOf(model, payload) == [op |-> model, payload |-> payload]

\* the texts vary, the rest is valid
InitPayloadTexts ==
    \E t \in Titles, d \in Descriptions, l \in LabelStrings :
        \/ call = ValidatorOf("CreateIssueInput",
                      Payload([title |-> t, description |-> d, labels |-> l]))
        \/ call = ValidatorOf("UpdateIssueInput",
                      Payload([title |-> t, description |-> d, labels |-> l]))
        \/ call = ValidatorOf("CreateMergeRequestInput",
                      Payload([source_branch |-> JStr(Text(1)), target_branch |-> JStr(Text(1)),
                               title |-> t, description |-> d, labels |-> l]))
        \/ call = ValidatorOf("UpdateMergeRequestInput",
                      Payload([title |-> t, description |-> d, labels |-> l]))

\* the lists, the state event and an undeclared field vary
InitPayloadShape ==
    \E a \in IdLists, r \in IdLists, e \in StateEvents, x \in Extras :
        \/ /\ r = JNull
           /\ call = ValidatorOf("CreateIssueInput",
                         Payload([title |-> JStr(Text(1)), assignee_ids |-> a,
                                  state_event |-> e, color |-> x]))
        \/ /\ r = JNull
           /\ call = ValidatorOf("UpdateIssueInput",
                         Payload([assignee_ids |-> a, state_event |-> e, color |-> x]))
        \/ call = ValidatorOf("CreateMergeRequestInput",
                      Payload([source_branch |-> JStr(Text(1)), target_branch |-> JStr(Text(1)),
                               title |-> JStr(Text(1)), assignee_ids |-> a,
                               reviewer_ids |-> r, state_event |-> e, color |-> x]))
        \/ call = ValidatorOf("UpdateMergeRequestInput",
                      Payload([assignee_ids |-> a, reviewer_ids |-> r,
                               state_event |-> e, color |-> x]))

\* the branch names vary
InitPayloadBranches ==
    \E sb \in Branches, tb \in Branches :
        \/ call = ValidatorOf("CreateMergeRequestInput",
                      Payload([source_branch |-> sb, target_branch |-> tb,
                               title |-> JStr(Text(1))]))
        \/ /\ sb = Omitted
           /\ call = ValidatorOf("UpdateMergeRequestInput", Payload([target_branch |-> tb]))

InitPayload ==
    /\ InitPayloadTexts \/ InitPayloadShape \/ InitPayloadBranches
    /\ environ = NoEnviron
    /\ pc = "ready"
    /\ outcome = NoOutcome
    /\ pool = "none"
    /\ _config = NoConfig
    /\ _client = FALSE
    /\ pools = <<>>
    /\ sent = <<>>

ValidateCreateIssue ==
    /\ pc = "ready"
    /\ call.op = "CreateIssueInput"
    /\ outcome' = CreateIssueInput(call.payload)
    /\ pc' = "done"
    /\ UNCHANGED <<environ, call, pool, _config, _client, pools, sent>>

ValidateUpdateIssue ==
    /\ pc = "ready"
    /\ call.op = "UpdateIssueInput"
    /\ outcome' = UpdateIssueInput(call.payload)
    /\ pc' = "done"
    /\ UNCHANGED <<environ, call, pool, _config, _client, pools, sent>>

ValidateCreateMergeRequest ==
    /\ pc = "ready"
    /\ call.op = "CreateMergeRequestInput"
    /\ outcome' = CreateMergeRequestInput(call.payload)
    /\ pc' = "done"
    /\ UNCHANGED <<environ, call, pool, _config, _client, pools, sent>>

ValidateUpdateMergeRequest ==
    /\ pc = "ready"
    /\ call.op = "UpdateMergeRequestInput"
    /\ outcome' = UpdateMergeRequestInput(call.payload)
    /\ pc' = "done"
    /\ UNCHANGED <<environ, call, pool, _config, _client, pools, sent>>

NextPayload ==
    \/ ValidateCreateIssue
    \/ ValidateUpdateIssue
    \/ ValidateCreateMergeRequest
    \/ ValidateUpdateMergeRequest

SpecPayload == InitPayload /\ [][NextPayload]_vars

PayloadModels ==
    {"CreateIssueInput", "UpdateIssueInput", "CreateMergeRequestInput",
     "UpdateMergeRequestInput"}

\* the fields each model declares, and those it requires
DeclaredFields(model) ==
    CASE model = "CreateIssueInput" -> DOMAIN CreateIssueFields
      [] model = "UpdateIssueInput" -> DOMAIN UpdateIssueFields
      [] model = "CreateMergeRequestInput" -> DOMAIN CreateMergeRequestFields
      [] model = "UpdateMergeRequestInput" -> DOMAIN UpdateMergeRequestFields

RequiredFields(model) ==
    CASE model = "CreateIssueInput" -> {"title"}
      [] model = "CreateMergeRequestInput" -> {"source_branch", "target_branch", "title"}
      [] OTHER -> {}

\* what the claim asks of one field that is given and not None
FieldWithinLimits(name, v) ==
    CASE name = "title" -> 1 <= Size(v) /\ Size(v) <= 500
      [] name = "description" -> Size(v) <= 50000
      [] name = "labels" -> Size(v) <= 1000
      [] name \in {"source_branch", "target_branch"} -> 1 <= Size(v) /\ Size(v) <= 255
      [] name \in {"assignee_ids", "reviewer_ids"} -> Size(v) <= 10
      [] name = "state_event" -> v.s \in {CLOSE, REOPEN}
      [] OTHER -> TRUE

Acceptable(model, payload) ==
    /\ DOMAIN payload \subseteq DeclaredFields(model)
    /\ \A name \in RequiredFields(model) :
          name \in DOMAIN payload /\ payload[name] # JNull
    /\ \A name \in DOMAIN payload :
          payload[name] # JNull => FieldWithinLimits(name, payload[name])

\* C18: a create/update issue or merge-request payload is accepted exactly
\* when it has no unknown field, its required fields are present, every title
\* has 1 to 500 characters, every description at most 50,000, every label
\* string at most 1,000, every branch name 1 to 255, every assignee/reviewer
\* list at most 10 entries and state_event is absent or 'close' or 'reopen';
\* otherwise it is rejected as a whole.
C18_AcceptedExactlyWithinLimits ==
    (pc = "done" /\ call.op \in PayloadModels) =>
        IF Acceptable(call.op, call.payload)
        THEN outcome.kind = "return"
        ELSE outcome.kind = "raise" /\ outcome.exc = "pydantic.ValidationError"

\* C18 witness: an update of a merge request whose only fault is a state_event
\* of 'merge' has been rejected
C18_Witness ==
    /\ pc = "done"
    /\ call.op = "UpdateMergeRequestInput"
    /\ call.payload = [assignee_ids |-> JArr(Ids(10)), reviewer_ids |-> JNull,
                       state_event |-> JStr(<<"m", "e", "r", "g", "e">>)]
    /\ outcome.kind = "raise"

(***************************************************************************)
(* tools/: the tool functions.  A tool is an operator of the environment,  *)
(* the two singletons and its arguments; it yields the singletons after    *)
(* it and, as its outcome, either what it raised before any request or the *)
(* one request it hands to the client.                                     *)
(***************************************************************************)
\* the ceiling of per_page in `min(per_page, 100)`
MAX_PER_PAGE == 100

\* variant with a fault: per_page is passed through
PageParams_unclamped(page, per_page) == [page |-> page, per_page |-> per_page]

\* "page": page, "per_page": min(per_page, 100)
PageParams(page, per_page) ==
    [page |-> page,
     per_page |-> IF per_page < MAX_PER_PAGE THEN per_page ELSE MAX_PER_PAGE]

\* the optional query parameters that are set
Where(args) == [name \in {n \in DOMAIN args : args[n] # Omitted} |-> args[name]]

\* the two records as one dict
Both(f, g) == [name \in DOMAIN f \cup DOMAIN g |-> IF name \in DOMAIN f THEN f[name] ELSE g[name]]

\* errors.ValidationError(message)
ValidationError(message) == Raise("ValidationError", message)

\* a tool ends before get_client()
Before(outcome_, cell, exists) == [outcome |-> outcome_, cell |-> cell, exists |-> exists]

\* a tool goes on after `client = get_client()`: what get_client raised, or
\* the rest of the tool
After(got, rest) ==
    [outcome |-> IF got.outcome.kind = "raise" THEN got.outcome ELSE rest,
     cell    |-> got.cell,
     exists  |-> got.exists]

\* encoded_id = encode_project_id(project_id), then the request
Encoded(project_id, request) ==
    IF encode_project_id(project_id).kind = "raise"
    THEN encode_project_id(project_id)
    ELSE Return(request)

PROJECTS_PATH == <<"/", "p", "r", "o", "j", "e", "c", "t", "s">>

\* tools/projects.py list_projects
list_projects(env, cell, exists, a) ==
    After(get_client(env, cell, exists),
          Return([method |-> "GET",
                  path   |-> PROJECTS_PATH,
                  params |-> Both(PageParams(a.page, a.per_page),
                                  Both([order_by |-> a.order_by, sort |-> a.sort],
                                       Where([search     |-> IF a.search # JNull /\ a.search.s # <<>>
                                                             THEN a.search ELSE Omitted,
                                              owned      |-> IF a.owned THEN JStr(<<"t", "r", "u", "e">>) ELSE Omitted,
                                              membership |-> IF a.membership THEN JStr(<<"t", "r", "u", "e">>) ELSE Omitted,
                                              visibility |-> IF a.visibility # JNull /\ a.visibility.s # <<>>
                                                             THEN a.visibility ELSE Omitted])))]))

SEARCH_SCOPES ==
    {<<"p", "r", "o", "j", "e", "c", "t", "s">>,
     <<"i", "s", "s", "u", "e", "s">>,
     <<"m", "e", "r", "g", "e", "_", "r", "e", "q", "u", "e", "s", "t", "s">>,
     <<"m", "i", "l", "e", "s", "t", "o", "n", "e", "s">>,
     <<"s", "n", "i", "p", "p", "e", "t", "_", "t", "i", "t", "l", "e", "s">>,
     <<"w", "i", "k", "i", "_", "b", "l", "o", "b", "s">>,
     <<"c", "o", "m", "m", "i", "t", "s">>,
     <<"b", "l", "o", "b", "s">>,
     <<"n", "o", "t", "e", "s">>,
     <<"u", "s", "e", "r", "s">>}

\* search_project: SEARCH_SCOPES - {"projects", "snippet_titles", "users"}
project_scopes ==
    SEARCH_SCOPES \ {<<"p", "r", "o", "j", "e", "c", "t", "s">>,
                     <<"s", "n", "i", "p", "p", "e", "t", "_", "t", "i", "t", "l", "e", "s">>,
                     <<"u", "s", "e", "r", "s">>}

EMPTY_QUERY ==
    <<"S", "e", "a", "r", "c", "h", " ", "q", "u", "e", "r", "y", " ", "m", "u", "s",
      "t", " ", "n", "o", "t", " ", "b", "e", " ", "e", "m", "p", "t", "y">>

\* "Invalid search scope. Allowed: " and the sorted scopes joined by ", "
INVALID_SCOPE ==
    <<"I", "n", "v", "a", "l", "i", "d", " ", "s", "e", "a", "r", "c", "h", " ", "s",
      "c", "o", "p", "e", ".", " ", "A", "l", "l", "o", "w", "e", "d", ":", " ", "b",
      "l", "o", "b", "s", ",", " ", "c", "o", "m", "m", "i", "t", "s", ",", " ", "i",
      "s", "s", "u", "e", "s", ",", " ", "m", "e", "r", "g", "e", "_", "r", "e", "q",
      "u", "e", "s", "t", "s", ",", " ", "m", "i", "l", "e", "s", "t", "o", "n", "e",
      "s", ",", " ", "n", "o", "t", "e", "s", ",", " ", "p", "r", "o", "j", "e", "c",
      "t", "s", ",", " ", "s", "n", "i", "p", "p", "e", "t", "_", "t", "i", "t", "l",
      "e", "s", ",", " ", "u", "s", "e", "r", "s", ",", " ", "w", "i", "k", "i", "_",
      "b", "l", "o", "b", "s">>

INVALID_PROJECT_SCOPE ==
    <<"I", "n", "v", "a", "l", "i", "d", " ", "p", "r", "o", "j", "e", "c", "t", " ",
      "s", "e", "a", "r", "c", "h", " ", "s", "c", "o", "p", "e", ".", " ", "A", "l",
      "l", "o", "w", "e", "d", ":", " ", "b", "l", "o", "b", "s", ",", " ", "c", "o",
      "m", "m", "i", "t", "s", ",", " ", "i", "s", "s", "u", "e", "s", ",", " ", "m",
      "e", "r", "g", "e", "_", "r", "e", "q", "u", "e", "s", "t", "s", ",", " ", "m",
      "i", "l", "e", "s", "t", "o", "n", "e", "s", ",", " ", "n", "o", "t", "e", "s",
      ",", " ", "w", "i", "k", "i", "_", "b", "l", "o", "b", "s">>

SEARCH_PATH == <<"/", "s", "e", "a", "r", "c", "h">>

\* tools/search.py search_global
search_global(env, cell, exists, a) ==
    IF a.search = <<>> \/ Strip(a.search) = <<>>
    THEN Before(ValidationError(EMPTY_QUERY), cell, exists)
    ELSE IF a.scope \notin SEARCH_SCOPES
    THEN Before(ValidationError(INVALID_SCOPE), cell, exists)
    ELSE After(get_client(env, cell, exists),
               Return([method |-> "GET",
                       path   |-> SEARCH_PATH,
                       params |-> Both([search |-> Strip(a.search), scope |-> a.scope],
                                       PageParams(a.page, a.per_page))]))

\* variant with a fault: the scope is not checked before the request
search_project_scope_unchecked(env, cell, exists, a) ==
    IF a.search = <<>> \/ Strip(a.search) = <<>>
    THEN Before(ValidationError(EMPTY_QUERY), cell, exists)
    ELSE After(get_client(env, cell, exists),
               Encoded(a.project_id,
                       [method |-> "GET",
                        path   |-> PROJECTS_PATH \o <<"/">>
                                   \o encode_project_id(a.project_id).value \o SEARCH_PATH,
                        params |-> Both([search |-> Strip(a.search), scope |-> a.scope],
                                        PageParams(a.page, a.per_page))]))

\* tools/search.py search_project
search_project(env, cell, exists, a) ==
    IF a.search = <<>> \/ Strip(a.search) = <<>>
    THEN Before(ValidationError(EMPTY_QUERY), cell, exists)
    ELSE IF a.scope \notin project_scopes
    THEN Before(ValidationError(INVALID_PROJECT_SCOPE), cell, exists)
    ELSE After(get_client(env, cell, exists),
               Encoded(a.project_id,
                       [method |-> "GET",
                        path   |-> PROJECTS_PATH \o <<"/">>
                                   \o encode_project_id(a.project_id).value \o SEARCH_PATH,
                        params |-> Both([search |-> Strip(a.search), scope |-> a.scope],
                                        PageParams(a.page, a.per_page))]))

\* tools/merge_requests.py list_mr_discussions
list_mr_discussions(env, cell, exists, a) ==
    After(get_client(env, cell, exists),
          Encoded(a.project_id,
                  [method |-> "GET",
                   path   |-> PROJECTS_PATH \o <<"/">>
                              \o encode_project_id(a.project_id).value
                              \o <<"/", "m", "e", "r", "g", "e", "_", "r", "e", "q", "u", "e", "s", "t", "s", "/">>
                              \o IntToStr(a.merge_request_iid)
                              \o <<"/", "d", "i", "s", "c", "u", "s", "s", "i", "o", "n", "s">>,
                   params |-> PageParams(a.page, a.per_page)]))

\* lines 117-128 of tools/issues.py: the JSON body of create_issue
IssueData(validated) ==
    Both([title |-> validated.title],
         Where([description  |-> IF validated.description # JNull
                                 THEN validated.description ELSE Omitted,
                labels       |-> IF validated.labels # JNull
                                 THEN validated.labels ELSE Omitted,
                assignee_ids |-> IF validated.assignee_ids # JNull
                                 THEN validated.assignee_ids ELSE Omitted,
                milestone_id |-> IF validated.milestone_id # JNull
                                 THEN validated.milestone_id ELSE Omitted,
                confidential |-> IF validated.confidential = JBool(TRUE)
                                 THEN JBool(TRUE) ELSE Omitted]))

\* lines 105-112 of tools/issues.py: the keyword arguments of CreateIssueInput
IssueArgs(a) ==
    [title |-> a.title, description |-> a.description, labels |-> a.labels,
     assignee_ids |-> a.assignee_ids, milestone_id |-> a.milestone_id,
     confidential |-> a.confidential]

\* tools/issues.py create_issue
create_issue(env, cell, exists, a) ==
    IF CreateIssueInput(IssueArgs(a)).kind = "raise"
    THEN Before(CreateIssueInput(IssueArgs(a)), cell, exists)
    ELSE After(get_client(env, cell, exists),
               Encoded(a.project_id,
                       [method |-> "POST",
                        path   |-> PROJECTS_PATH \o <<"/">>
                                   \o encode_project_id(a.project_id).value
                                   \o <<"/", "i", "s", "s", "u", "e", "s">>,
                        json   |-> IssueData(CreateIssueInput(IssueArgs(a)).value)]))

(***************************************************************************)
(* The specification of the tool calls: Init draws the environment, one    *)
(* tool with the caller's arguments and what the server answers if it is   *)
(* asked; each action is one whole tool call of a fresh process, from its  *)
(* first validation to the outcome of the request it awaits.               *)
(***************************************************************************)
MaxPerPage == 102
MaxPage == 2

\* per_page around 0, the default 20, and around the ceiling
PerPages == {-1, 0, 1, 20} \cup (99..MaxPerPage)

Pages == -1..MaxPage

Queries == {<<>>, <<" ">>, <<"a">>, <<" ", "a", " ">>}

\* allowed everywhere, allowed globally only, allowed nowhere
Scopes ==
    {<<"i", "s", "s", "u", "e", "s">>,
     <<"u", "s", "e", "r", "s">>,
     <<"n", "o", "p", "e">>}

\* numeric, a path, empty, blank, outside the charset
ProjectIds == {<<"7">>, <<"a", "/", "a">>, <<>>, <<" ">>, <<";">>}

ToolEnvirons == [GITLAB_TOKEN : {<<>>, <<"z">>}]

\* a page of results, a 404, a timeout
CallReplies ==
    {Response(200, Absent, Absent, Absent, NoPagination, JsonBody(JArr(<<>>))),
     Response(404, Absent, Absent, Absent, NoPagination,
              JsonBody(JObj([message |-> JStr(<<"z", "#">>)]))),
     [kind |-> "timeout", text |-> <<>>]}

Tool(name, args, reply) == [op |-> name, args |-> args, reply |-> reply]

InitListProjects ==
    \E page \in Pages, per_page \in PerPages, reply \in CallReplies,
       search \in {JNull, JStr(<<>>), JStr(<<"a">>)}, owned \in BOOLEAN :
        call = Tool("list_projects",
                    [search |-> search, owned |-> owned, membership |-> ~owned,
                     visibility |-> IF owned THEN JStr(<<"p", "u", "b", "l", "i", "c">>) ELSE JNull,
                     order_by |-> <<"c", "r", "e", "a", "t", "e", "d", "_", "a", "t">>, sort |-> <<"d", "e", "s", "c">>,
                     page |-> page, per_page |-> per_page],
                    reply)

InitSearch ==
    \E page \in {1, MaxPage}, per_page \in {20, MaxPerPage}, reply \in CallReplies,
       search \in Queries, scope \in Scopes, project_id \in ProjectIds :
        \/ /\ project_id = <<"7">>
           /\ call = Tool("search_global",
                          [search |-> search, scope |-> scope,
                           page |-> page, per_page |-> per_page],
                          reply)
        \/ call = Tool("search_project",
                       [project_id |-> project_id, search |-> search, scope |-> scope,
                        page |-> page, per_page |-> per_page],
                       reply)

InitListMrDiscussions ==
    \E page \in Pages, per_page \in PerPages, reply \in CallReplies,
       project_id \in ProjectIds :
        call = Tool("list_mr_discussions",
                    [project_id |-> project_id, merge_request_iid |-> 7,
                     page |-> page, per_page |-> per_page],
                    reply)

InitCreateIssue ==
    \E reply \in CallReplies, project_id \in ProjectIds,
       title \in Titles \ {Omitted}, labels \in LabelStrings,
       assignee_ids \in IdLists, confidential \in {JBool(FALSE), JBool(TRUE)} :
        call = Tool("create_issue",
                    [project_id |-> project_id, title |-> title,
                     description |-> IF confidential = JBool(TRUE)
                                     THEN JStr(Text(MAX_DESCRIPTION_LENGTH + 1))
                                     ELSE JNull,
                     labels |-> labels, assignee_ids |-> assignee_ids,
                     milestone_id |-> JNull, confidential |-> confidential],
                    reply)

InitCreateIssueNote ==
    \E reply \in CallReplies, project_id \in ProjectIds, body \in NoteBodies :
        call = [op |-> "create_issue_note", project_id |-> project_id,
                body |-> body, reply |-> reply]

InitToolCalls ==
    /\ \/ InitListProjects
       \/ InitSearch
       \/ InitListMrDiscussions
       \/ InitCreateIssue
       \/ InitCreateIssueNote
    /\ environ \in ToolEnvirons
    /\ pc = "ready"
    /\ outcome = NoOutcome
    /\ pool = "none"
    /\ _config = NoConfig
    /\ _client = FALSE
    /\ pools = <<>>
    /\ sent = <<>>

\* the end of every tool: what it raised on the way, or
\* `return await client.get/post(...)`, the one request and its outcome
Awaited(did) ==
    /\ _config' = did.cell
    /\ _client' = did.exists
    /\ IF did.outcome.kind = "raise"
       THEN outcome' = did.outcome /\ UNCHANGED <<pool, pools, sent>>
       ELSE /\ pool' = _get_client(pool)
            /\ pools' = _get_client_pools(pool, pools, did.cell)
            /\ sent' = sent \o client_request(Len(pools'), did.outcome.value, call.reply)
            /\ outcome' = _request(environ, call.reply)

ListProjects ==
    /\ pc = "ready"
    /\ call.op = "list_projects"
    /\ pc' = "done"
    /\ UNCHANGED <<environ, call>>
    /\ \E did \in {list_projects(environ, _config, _client, call.args)} : Awaited(did)

SearchGlobal ==
    /\ pc = "ready"
    /\ call.op = "search_global"
    /\ pc' = "done"
    /\ UNCHANGED <<environ, call>>
    /\ \E did \in {search_global(environ, _config, _client, call.args)} : Awaited(did)

SearchProject ==
    /\ pc = "ready"
    /\ call.op = "search_project"
    /\ pc' = "done"
    /\ UNCHANGED <<environ, call>>
    /\ \E did \in {search_project(environ, _config, _client, call.args)} : Awaited(did)

ListMrDiscussions ==
    /\ pc = "ready"
    /\ call.op = "list_mr_discussions"
    /\ pc' = "done"
    /\ UNCHANGED <<environ, call>>
    /\ \E did \in {list_mr_discussions(environ, _config, _client, call.args)} : Awaited(did)

CreateIssue ==
    /\ pc = "ready"
    /\ call.op = "create_issue"
    /\ pc' = "done"
    /\ UNCHANGED <<environ, call>>
    /\ \E did \in {create_issue(environ, _config, _client, call.args)} : Awaited(did)

NextToolCalls ==
    \/ ListProjects
    \/ SearchGlobal
    \/ SearchProject
    \/ ListMrDiscussions
    \/ CreateIssue
    \/ CreateIssueNote

SpecToolCalls == InitToolCalls /\ [][NextToolCalls]_vars

PagedTools == {"list_projects", "search_global", "search_project", "list_mr_discussions"}

\* C16: every request a paged tool sends carries per_page = min(per_page, 100),
\* so at most 100, and the caller's page unchanged.
C16_PerPageClamped ==
    (pc = "done" /\ call.op \in PagedTools) =>
        \A i \in DOMAIN sent :
            /\ sent[i].request.params.per_page =
                   (IF call.args.per_page <= 100 THEN call.args.per_page ELSE 100)
            /\ sent[i].request.params.per_page <= 100
            /\ sent[i].request.params.page = call.args.page

\* C16 witness: list_mr_discussions asked for 101 per page on page 2 sends 100
\* and page 2
C16_Witness ==
    /\ pc = "done"
    /\ call.op = "list_mr_discussions"
    /\ call.args.per_page = 101
    /\ call.args.page = 2
    /\ Len(sent) = 1
    /\ sent[1].request.params.per_page = 100
    /\ sent[1].request.params.page = 2

\* the call's input fails validation: its payload is rejected by the validator,
\* its identifier by the encoder, its query or note body is empty or blank, or
\* its scope is not allowed
BlankText(s) == \A i \in DOMAIN s : s[i] = " "

FailsValidation(c) ==
    \/ /\ c.op \in {"search_global", "search_project"}
       /\ BlankText(c.args.search)
    \/ /\ c.op = "search_global"
       /\ c.args.scope \notin SEARCH_SCOPES
    \/ /\ c.op = "search_project"
       /\ c.args.scope \notin project_scopes
    \/ /\ c.op \in {"search_project", "list_mr_discussions", "create_issue"}
       /\ encode_project_id(c.args.project_id).kind = "raise"
    \/ /\ c.op = "create_issue_note"
       /\ BlankText(c.body) \/ encode_project_id(c.project_id).kind = "raise"
    \/ /\ c.op = "create_issue"
       /\ CreateIssueInput(IssueArgs(c.args)).kind = "raise"

\* C17: a tool call whose input fails validation ends in an error and has
\* issued no outbound HTTP request.
C17_NoRequestOnInvalidInput ==
    (pc = "done" /\ FailsValidation(call)) =>
        /\ sent = <<>>
        /\ pools = <<>>
        /\ outcome.kind = "raise"

\* C17 witness: search_project with a valid query and project, a configured
\* token and a scope that is allowed only globally raises ValidationError
\* and sends nothing
C17_Witness ==
    /\ pc = "done"
    /\ call.op = "search_project"
    /\ call.args.search = <<"a">>
    /\ call.args.project_id = <<"7">>
    /\ call.args.scope = <<"u", "s", "e", "r", "s">>
    /\ environ.GITLAB_TOKEN = <<"z">>
    /\ outcome = ValidationError(INVALID_PROJECT_SCOPE)
    /\ sent = <<>>

(***************************************************************************)
(* The specification of ProjectNotFoundError: Init draws an identifier of  *)
(* a length up to and beyond the 40 characters shown; the action           *)
(* constructs the error from it.                                           *)
(***************************************************************************)
MaxLongId == 44

\* how an identifier ends: plainly, in one to three dots, or in a letter
IdEndings == {<<>>, <<".">>, <<".", ".">>, <<".", ".", ".">>, <<"b">>}

\* n letters and an ending; and ": " repeated
LongIdentifiers ==
    {Text(n) \o e : n \in 0..MaxLongId, e \in IdEndings}
        \cup {[i \in 1..n |-> IF i % 2 = 1 THEN ":" ELSE " "] : n \in 0..MaxLongId}

InitNotFound ==
    /\ environ = NoEnviron
    /\ pc = "ready"
    /\ call \in [op : {"ProjectNotFoundError"}, identifier : LongIdentifiers]
    /\ outcome = NoOutcome
    /\ pool = "none"
    /\ _config = NoConfig
    /\ _client = FALSE
    /\ pools = <<>>
    /\ sent = <<>>

ConstructNotFound ==
    /\ pc = "ready"
    /\ call.op = "ProjectNotFoundError"
    /\ outcome' = ProjectNotFoundError(call.identifier)
    /\ pc' = "done"
    /\ UNCHANGED <<environ, call, pool, _config, _client, pools, sent>>

NextNotFound == ConstructNotFound

SpecNotFound == InitNotFound /\ [][NextNotFound]_vars

ELLIPSIS == <<".", ".", ".">>

\* C19 as stated: an identifier longer than 40 characters is rendered as its
\* first 40 characters and '...', the message ends with '...' and does not
\* contain the full identifier; one of 40 or fewer is rendered in full.
C19_AsStated ==
    (pc = "done" /\ call.op = "ProjectNotFoundError") =>
        IF Len(call.identifier) > 40
        THEN /\ outcome.text = NOT_FOUND_PREFIX \o SubSeq(call.identifier, 1, 40) \o ELLIPSIS
             /\ ~Contains(outcome.text, call.identifier)
        ELSE outcome.text = NOT_FOUND_PREFIX \o call.identifier

\* C19: the message of ProjectNotFoundError(identifier) is the fixed text
\* followed, for an identifier longer than 40 characters, by its first 40
\* characters and '...', and otherwise by the identifier as it is.
C19_TruncatedAtForty ==
    (pc = "done" /\ call.op = "ProjectNotFoundError") =>
        /\ outcome.kind = "raise"
        /\ outcome.exc = "ProjectNotFoundError"
        /\ outcome.text =
               NOT_FOUND_PREFIX \o
               (IF Len(call.identifier) > 40
                THEN SubSeq(call.identifier, 1, 40) \o ELLIPSIS
                ELSE call.identifier)

\* C19 witness: an identifier of 41 letters has been rendered as 40 letters
\* and '...', and the message does not contain it
C19_Witness ==
    /\ pc = "done"
    /\ call.op = "ProjectNotFoundError"
    /\ call.identifier = Text(41)
    /\ outcome.text = NOT_FOUND_PREFIX \o Text(40) \o ELLIPSIS
    /\ ~Contains(outcome.text, call.identifier)

(***************************************************************************)
(* 429 responses, under the specification of _request.                     *)
(***************************************************************************)
RATE_LIMITED == <<"R", "a", "t", "e", " ", "l", "i", "m", "i", "t", " ", "e", "x", "c", "e", "e",
      "d", "e", "d", ".">>

\* the retry hint of n seconds
RetryHint(n) ==
    <<" ", "R", "e", "t", "r", "y", " ", "a", "f", "t", "e", "r", " ">> \o IntToStr(n) \o <<" ", "s", "e", "c", "o", "n", "d", "s", ".">>

\* C20: every 429 response raises RateLimitError; when the retry-after header
\* is present with an integer value, 0 included, the error carries that
\* integer as its retry hint, and it carries no hint exactly when the header
\* is absent.
C20_CarriesRetryAfter ==
    (Replied /\ call.reply.status = 429) =>
        LET retry_after == call.reply.headers.retry_after IN
        /\ outcome.kind = "raise"
        /\ outcome.exc = "RateLimitError"
        /\ (outcome.text = RATE_LIMITED) = ~retry_after.present
        /\ (retry_after.present /\ ParseInt(retry_after.value).ok) =>
               outcome.text = RATE_LIMITED \o RetryHint(ParseInt(retry_after.value).int)

(***************************************************************************)
(* The specification of _request on error responses with long bodies:      *)
(* Init draws a status that is no success and a body whose message, error  *)
(* or raw text has a length up to and beyond the 200 characters kept of a  *)
(* raw text; the action is one call of _request.                           *)
(***************************************************************************)
MaxReplyLen == 300

ReplyLens == {0, 1, MAX_RAW_ERROR_TEXT - 1, MAX_RAW_ERROR_TEXT, MAX_RAW_ERROR_TEXT + 1, MaxReplyLen}

\* the bodies of error responses: raw text, a JSON string, and objects with
\* a message, an error, both, a null message beside an error, a message that
\* is an object, or neither
LongBodies ==
    {JsonBody(JObj(<<>>)), JsonBody(JObj([id |-> JNum(7)])), JsonBody(JNull),
     JsonBody(JObj([message |-> JNull])),
     JsonBody(JObj([message |-> JObj([base |-> JArr(<<JStr(<<"a">>)>>)])]))}
    \cup UNION {{[kind |-> "raw", text |-> Text(n)],
                 JsonBody(JStr(Text(n))),
                 JsonBody(JObj([message |-> JStr(Text(n))])),
                 JsonBody(JObj([error |-> JStr(Text(n))])),
                 JsonBody(JObj([message |-> JStr(Text(n)), error |-> JStr(<<"b">>)])),
                 JsonBody(JObj([message |-> JNull, error |-> JStr(Text(n))]))} :
                n \in ReplyLens}

InitLongReply ==
    /\ environ \in [GITLAB_TOKEN : RequestTokens]
    /\ pc = "ready"
    /\ \E st \in ErrorStatuses, b \in LongBodies :
          call = RequestOf(Response(st, Absent, Absent, Absent, NoPagination, b))
    /\ outcome = NoOutcome
    /\ pool = "none"
    /\ _config = Config(environ).value
    /\ _client = TRUE
    /\ pools = <<>>
    /\ sent = <<>>

NextLongReply == Request

SpecLongReply == InitLongReply /\ [][NextLongReply]_vars

\* the longest text the truncations of the client allow: "GitLab API error
\* NNN: " and the 200 characters kept of a raw text
ERROR_TEXT_CEILING == Len(API_ERROR_PREFIX) + 3 + 2 + MAX_RAW_ERROR_TEXT

\* the strings of the body the server controls: its raw text, or the message
\* and error values of its JSON object, or its JSON string
ServerStrings(b) ==
    IF b.kind = "raw" THEN {b.text}
    ELSE IF b.value.t = "string" THEN {b.value.s}
    ELSE IF b.value.t = "object"
    THEN {b.value.fields[k].s :
             k \in {n \in DOMAIN b.value.fields \cap {"message", "error"} :
                       b.value.fields[n].t = "string"}}
    ELSE {}

\* C21: the message of every error _request raises on an error response is
\* no longer than a constant that does not grow with the body, and no string
\* of the body longer than the 200 characters kept of a raw text is in it
\* whole.
C21_ErrorTextBounded ==
    (Replied /\ ~is_success(call.reply) /\ outcome.kind = "raise") =>
        /\ Len(outcome.text) <= ERROR_TEXT_CEILING
        /\ \A str \in ServerStrings(call.reply.body) :
               Len(str) > MAX_RAW_ERROR_TEXT => ~Contains(outcome.text, str)

\* what the claim of C27 says is extracted from the body
ClaimedMessage(b) ==
    IF b.kind = "raw"
    THEN IF b.text # <<>> THEN SubSeq(b.text, 1, IF Len(b.text) < 200 THEN Len(b.text) ELSE 200)
         ELSE UNKNOWN_ERROR
    ELSE IF b.value.t # "object" THEN UNKNOWN_ERROR
    ELSE IF "message" \in DOMAIN b.value.fields /\ b.value.fields.message # JNull
    THEN PyStr(b.value.fields.message)
    ELSE IF "error" \in DOMAIN b.value.fields /\ b.value.fields.error # JNull
    THEN PyStr(b.value.fields.error)
    ELSE UNKNOWN_ERROR

\* the statuses whose error renders the extracted message whole
RenderingStatuses == ErrorStatuses \ {401, 403, 404, 429}

\* C27: for a non-2xx response whose body is raw text or a JSON object, the
\* extracted message is the 'message' field when there is a usable one, else
\* the 'error' field when there is one (also when 'message' is null), else
\* the first 200 characters of a raw text, and 'Unknown error' otherwise.
C27_MessageThenError ==
    (/\ Replied
     /\ call.reply.status \in RenderingStatuses
     /\ call.reply.body.kind = "json" => call.reply.body.value.t = "object") =>
        Raised("GitLabApiError",
               API_ERROR_PREFIX \o IntToStr(call.reply.status) \o <<":", " ">>
                   \o ClaimedMessage(call.reply.body))

(***************************************************************************)
(* The specification of the configuration singleton: between the calls of  *)
(* get_config() the environment changes and, as the tests do, the module   *)
(* global is reset.  call is the history: the last step, the number of     *)
(* steps, and the number of times Config() was called.                     *)
(***************************************************************************)
MaxSteps == 4

\* no token, two tokens, a URL that fails the HTTPS rule, another origin
SingletonEnvirons ==
    {NoEnviron,
     [GITLAB_TOKEN |-> <<"z">>],
     [GITLAB_TOKEN |-> <<"y">>],
     [GITLAB_TOKEN |-> <<"z">>, GITLAB_URL |-> <<"h", "t", "t", "p", ":", "/", "/", "a">>],
     [GITLAB_TOKEN |-> <<"z">>, GITLAB_URL |-> <<"h", "t", "t", "p", "s", ":", "/", "/", "a">>]}

History(last, steps, constructions) ==
    [last |-> last, steps |-> steps, constructions |-> constructions]

InitSingleton ==
    /\ environ \in SingletonEnvirons
    /\ pc = "serving"
    /\ call = History("import", 0, 0)
    /\ outcome = NoOutcome
    /\ pool = "none"
    /\ _config = NoConfig
    /\ _client = FALSE
    /\ pools = <<>>
    /\ sent = <<>>

\* get_config(): Config() is called when _config is None
GetConfig ==
    /\ pc = "serving"
    /\ call.steps < MaxSteps
    /\ \E got \in {get_config(environ, _config)} :
          /\ _config' = got.cell
          /\ outcome' = got.outcome
    /\ call' = History("get_config", call.steps + 1,
                       call.constructions + (IF _config = NoConfig THEN 1 ELSE 0))
    /\ UNCHANGED <<environ, pc, pool, _client, pools, sent>>

\* os.environ is changed from outside the module
SetEnviron ==
    /\ pc = "serving"
    /\ call.steps < MaxSteps
    /\ \E env \in SingletonEnvirons \ {environ} : environ' = env
    /\ call' = History("environ", call.steps + 1, call.constructions)
    /\ UNCHANGED <<pc, outcome, pool, _config, _client, pools, sent>>

\* config_mod._config = None
ResetConfig ==
    /\ pc = "serving"
    /\ call.steps < MaxSteps
    /\ _config' = NoConfig
    /\ call' = History("reset", call.steps + 1, call.constructions)
    /\ UNCHANGED <<environ, pc, outcome, pool, _client, pools, sent>>

\* a GitLabApiError is constructed from a message of the server
RaiseApiError ==
    /\ pc = "serving"
    /\ call.steps < MaxSteps
    /\ \E message \in {<<"z">>, <<"y">>, <<"a">>} :
          outcome' = GitLabApiError(environ, 500, message)
    /\ call' = History("GitLabApiError", call.steps + 1, call.constructions)
    /\ UNCHANGED <<environ, pc, pool, _config, _client, pools, sent>>

NextSingleton == GetConfig \/ SetEnviron \/ ResetConfig \/ RaiseApiError

SpecSingleton == InitSingleton /\ [][NextSingleton]_vars

\* the cell is unset or holds a Config whose construction succeeded
CellIsUnsetOrConfig ==
    \/ _config = NoConfig
    \/ \E env \in SingletonEnvirons :
          Config(env).kind = "return" /\ _config = Config(env).value

\* one call of get_config(): on a set cell it returns the cell, constructs
\* nothing and leaves the cell; on an unset cell it constructs once from the
\* environment of the call, and the cell is set exactly when that succeeded
GetConfigStep ==
    call'.last = "get_config" =>
        IF _config # NoConfig
        THEN /\ outcome' = Return(_config)
             /\ _config' = _config
             /\ call'.constructions = call.constructions
        ELSE /\ call'.constructions = call.constructions + 1
             /\ outcome' = Config(environ)
             /\ _config' = (IF Config(environ).kind = "return"
                            THEN Config(environ).value ELSE NoConfig)

\* the cell changes only by a first successful construction or by a reset
CellStep ==
    _config' # _config =>
        \/ call'.last = "get_config" /\ _config = NoConfig
        \/ call'.last = "reset" /\ _config' = NoConfig

\* C22: the configuration cell is always unset or a successfully constructed
\* Config; a failed construction leaves it unset; once set, get_config
\* returns that instance without constructing another or reading the
\* environment, until the cell is reset.
C22_Memoized ==
    /\ [](pc = "serving" => CellIsUnsetOrConfig)
    /\ [][pc = "serving" => (GetConfigStep /\ CellStep)]_vars

\* C22 witness: get_config has returned the Config made from token 'z' after
\* the environment was changed to token 'y', with one construction so far
C22_Witness ==
    /\ pc = "serving"
    /\ call = History("get_config", 3, 1)
    /\ environ = [GITLAB_TOKEN |-> <<"y">>]
    /\ _config # NoConfig
    /\ _config.token = <<"z">>
    /\ outcome = Return(_config)

\* C26: once a Config holds token T, the text of a GitLabApiError does not
\* contain T, whatever has become of GITLAB_TOKEN in the environment since.
C26_MasksConfigToken ==
    (pc = "serving" /\ call.last = "GitLabApiError" /\ _config # NoConfig) =>
        ~Contains(outcome.text, _config.token)

(***************************************************************************)
(* The trailing slashes of the base URL, under the specification of        *)
(* Config.                                                                 *)
(***************************************************************************)
API_V4 == <<"/", "a", "p", "i", "/", "v", "4">>

\* Config() has returned for a base URL that ends in n >= 1 slashes
StrippedConfig ==
    /\ pc = "done"
    /\ call.op = "Config"
    /\ outcome.kind = "return"
    /\ "GITLAB_URL" \in DOMAIN environ
    /\ call.url.tail # <<>>
    /\ call.url.tail = Slashes(Len(call.url.tail))

\* C23 as stated: one trailing slash is removed from the base URL, and only
\* one when it ends in several; api_base_url is the result and '/api/v4'.
C23_AsStated ==
    StrippedConfig =>
        /\ outcome.value.base_url =
               SubSeq(environ.GITLAB_URL, 1, Len(environ.GITLAB_URL) - 1)
        /\ api_base_url(outcome.value) = outcome.value.base_url \o API_V4

\* C23: every trailing slash is removed from the base URL, one or several:
\* gitlab_url is the URL up to its last character that is no slash, and
\* api_base_url is that followed by '/api/v4'.
C23_StripsEveryTrailingSlash ==
    StrippedConfig =>
        LET u == call.url
            origin == u.scheme.text \o u.user \o u.host.text \o u.port
        IN  /\ origin # <<>>
            /\ origin[Len(origin)] # "/"
            /\ outcome.value.base_url = origin
            /\ api_base_url(outcome.value) = origin \o API_V4

\* C23 witness: 'https://gitlab.com//' has given the base URL
\* 'https://gitlab.com' and the API base 'https://gitlab.com/api/v4'
C23_Witness ==
    /\ StrippedConfig
    /\ environ.GITLAB_URL = <<"h", "t", "t", "p", "s", ":", "/", "/", "g", "i", "t", "l", "a", "b", ".", "c",
      "o", "m", "/", "/">>
    /\ outcome.value.base_url = <<"h", "t", "t", "p", "s", ":", "/", "/", "g", "i", "t", "l", "a", "b", ".", "c",
      "o", "m">>
    /\ api_base_url(outcome.value) = <<"h", "t", "t", "p", "s", ":", "/", "/", "g", "i", "t", "l", "a", "b", ".", "c",
      "o", "m", "/", "a", "p", "i", "/", "v", "4">>

(***************************************************************************)
(* tools/__init__.py and server.py: the import of the server module.  The  *)
(* tools package first binds the functions it imports from its modules and *)
(* then assigns __all__; the server module then imports its tools from the *)
(* package and registers one wrapper per @mcp.tool() decorator, in the     *)
(* order of the file.  call is the state of the two modules: the names     *)
(* bound in the package, its __all__, the names bound in the server, and   *)
(* the registered tools with the function each one calls; at is the number *)
(* of names or wrappers gone through in the current phase.                 *)
(***************************************************************************)
\* the names the tools package imports from its modules, lines 6-56
TOOLS_IMPORTS ==
    <<"compare_branches", "create_branch", "delete_branch", "create_file",
      "get_file", "list_repository_tree", "update_file", "get_group",
      "list_group_projects", "list_groups", "create_issue",
      "create_issue_note", "get_issue", "list_issue_notes", "list_issues",
      "update_issue", "create_label", "delete_label", "list_labels",
      "update_label", "create_merge_request", "create_mr_discussion",
      "create_mr_note", "get_merge_request", "get_mr_changes",
      "list_merge_requests", "list_mr_discussions", "list_mr_notes",
      "update_merge_request", "create_milestone", "list_milestones",
      "update_milestone", "cancel_job", "cancel_pipeline",
      "create_pipeline", "delete_job", "delete_pipeline", "get_job_log",
      "get_pipeline", "list_pipeline_jobs", "list_pipelines", "retry_job",
      "retry_pipeline", "create_project", "delete_project", "get_project",
      "get_project_branch", "list_project_branches", "list_project_commits",
      "list_projects", "create_release", "get_release", "list_releases",
      "search_global", "search_project", "create_snippet", "list_snippets",
      "get_current_user", "get_user", "list_users", "create_wiki_page",
      "get_wiki_page", "list_wiki_pages">>

\* tools.__all__, lines 58-122
__all__ ==
    <<"list_projects", "get_project", "create_project", "delete_project",
      "list_project_branches", "get_project_branch", "list_project_commits",
      "list_groups", "get_group", "list_group_projects",
      "list_merge_requests", "get_merge_request", "create_merge_request",
      "update_merge_request", "list_mr_notes", "create_mr_note",
      "get_mr_changes", "list_mr_discussions", "create_mr_discussion",
      "list_issues", "get_issue", "create_issue", "update_issue",
      "list_issue_notes", "create_issue_note", "list_pipelines",
      "get_pipeline", "create_pipeline", "retry_pipeline",
      "cancel_pipeline", "delete_pipeline", "list_pipeline_jobs",
      "get_job_log", "retry_job", "cancel_job", "delete_job",
      "list_repository_tree", "get_file", "create_file", "update_file",
      "create_branch", "delete_branch", "compare_branches", "list_labels",
      "create_label", "update_label", "delete_label", "get_current_user",
      "list_users", "get_user", "list_releases", "get_release",
      "create_release", "list_milestones", "create_milestone",
      "update_milestone", "list_wiki_pages", "get_wiki_page",
      "create_wiki_page", "list_snippets", "create_snippet",
      "search_global", "search_project">>

\* from .tools import (...), server.py lines 11-73
SERVER_IMPORTS ==
    <<"cancel_job", "cancel_pipeline", "compare_branches", "create_branch",
      "create_file", "create_issue", "create_issue_note", "create_label",
      "create_merge_request", "create_milestone", "create_mr_discussion",
      "create_mr_note", "create_pipeline", "create_release",
      "create_snippet", "create_wiki_page", "delete_branch", "delete_job",
      "delete_label", "delete_pipeline", "get_current_user", "get_file",
      "get_group", "get_issue", "get_job_log", "get_merge_request",
      "get_mr_changes", "get_pipeline", "get_project", "get_project_branch",
      "get_release", "get_user", "get_wiki_page", "list_group_projects",
      "list_groups", "list_issue_notes", "list_issues", "list_labels",
      "list_merge_requests", "list_milestones", "list_mr_discussions",
      "list_mr_notes", "list_pipeline_jobs", "list_pipelines",
      "list_project_branches", "list_project_commits", "list_projects",
      "list_releases", "list_repository_tree", "list_snippets",
      "list_users", "list_wiki_pages", "retry_job", "retry_pipeline",
      "search_global", "search_project", "update_file", "update_issue",
      "update_label", "update_merge_request", "update_milestone">>

\* the wrappers under @mcp.tool() in server.py, each with the one tool
\* function its body awaits
MCP_TOOLS ==
    <<<<"list_projects_tool", "list_projects">>, <<"get_project_tool",
      "get_project">>, <<"list_project_branches_tool",
      "list_project_branches">>, <<"get_project_branch_tool",
      "get_project_branch">>, <<"list_project_commits_tool",
      "list_project_commits">>, <<"list_groups_tool", "list_groups">>,
      <<"get_group_tool", "get_group">>, <<"list_group_projects_tool",
      "list_group_projects">>, <<"list_merge_requests_tool",
      "list_merge_requests">>, <<"get_merge_request_tool",
      "get_merge_request">>, <<"create_merge_request_tool",
      "create_merge_request">>, <<"update_merge_request_tool",
      "update_merge_request">>, <<"list_mr_notes_tool", "list_mr_notes">>,
      <<"create_mr_note_tool", "create_mr_note">>, <<"get_mr_changes_tool",
      "get_mr_changes">>, <<"list_mr_discussions_tool",
      "list_mr_discussions">>, <<"create_mr_discussion_tool",
      "create_mr_discussion">>, <<"list_issues_tool", "list_issues">>,
      <<"get_issue_tool", "get_issue">>, <<"create_issue_tool",
      "create_issue">>, <<"update_issue_tool", "update_issue">>,
      <<"list_issue_notes_tool", "list_issue_notes">>,
      <<"create_issue_note_tool", "create_issue_note">>,
      <<"list_pipelines_tool", "list_pipelines">>, <<"get_pipeline_tool",
      "get_pipeline">>, <<"list_pipeline_jobs_tool", "list_pipeline_jobs">>,
      <<"get_job_log_tool", "get_job_log">>, <<"create_pipeline_tool",
      "create_pipeline">>, <<"retry_pipeline_tool", "retry_pipeline">>,
      <<"cancel_pipeline_tool", "cancel_pipeline">>,
      <<"delete_pipeline_tool", "delete_pipeline">>, <<"retry_job_tool",
      "retry_job">>, <<"cancel_job_tool", "cancel_job">>,
      <<"delete_job_tool", "delete_job">>, <<"search_global_tool",
      "search_global">>, <<"search_project_tool", "search_project">>,
      <<"list_repository_tree_tool", "list_repository_tree">>,
      <<"get_file_tool", "get_file">>, <<"create_file_tool",
      "create_file">>, <<"update_file_tool", "update_file">>,
      <<"create_branch_tool", "create_branch">>, <<"delete_branch_tool",
      "delete_branch">>, <<"compare_branches_tool", "compare_branches">>,
      <<"list_labels_tool", "list_labels">>, <<"create_label_tool",
      "create_label">>, <<"update_label_tool", "update_label">>,
      <<"delete_label_tool", "delete_label">>, <<"get_current_user_tool",
      "get_current_user">>, <<"list_users_tool", "list_users">>,
      <<"get_user_tool", "get_user">>, <<"list_releases_tool",
      "list_releases">>, <<"get_release_tool", "get_release">>,
      <<"create_release_tool", "create_release">>, <<"list_milestones_tool",
      "list_milestones">>, <<"create_milestone_tool", "create_milestone">>,
      <<"update_milestone_tool", "update_milestone">>,
      <<"list_wiki_pages_tool", "list_wiki_pages">>, <<"get_wiki_page_tool",
      "get_wiki_page">>, <<"create_wiki_page_tool", "create_wiki_page">>,
      <<"list_snippets_tool", "list_snippets">>, <<"create_snippet_tool",
      "create_snippet">>>>

Modules(at, bound, exported, imported, registered) ==
    [at |-> at, bound |-> bound, exported |-> exported, imported |-> imported,
     registered |-> registered]

InitServer ==
    /\ environ = NoEnviron
    /\ pc = "tools"
    /\ call = Modules(0, {}, {}, {}, {})
    /\ outcome = NoOutcome
    /\ pool = "none"
    /\ _config = NoConfig
    /\ _client = FALSE
    /\ pools = <<>>
    /\ sent = <<>>

\* tools/__init__.py: one name of a `from .module import` is bound
BindTool ==
    /\ pc = "tools"
    /\ call.at < Len(TOOLS_IMPORTS)
    /\ call' = [call EXCEPT !.at = @ + 1, !.bound = @ \cup {TOOLS_IMPORTS[call.at + 1]}]
    /\ UNCHANGED <<environ, pc, outcome, pool, _config, _client, pools, sent>>

\* tools/__init__.py: __all__ = [...]
AssignAll ==
    /\ pc = "tools"
    /\ call.at = Len(TOOLS_IMPORTS)
    /\ call' = [call EXCEPT !.at = 0, !.exported = Range(__all__)]
    /\ pc' = "server"
    /\ UNCHANGED <<environ, outcome, pool, _config, _client, pools, sent>>

\* server.py: one name of `from .tools import (...)` is bound; a name the
\* package has not bound raises ImportError
ImportTool ==
    /\ pc = "server"
    /\ call.at < Len(SERVER_IMPORTS)
    /\ IF SERVER_IMPORTS[call.at + 1] \in call.bound
       THEN /\ call' = [call EXCEPT !.at = @ + 1,
                                    !.imported = @ \cup {SERVER_IMPORTS[call.at + 1]}]
            /\ UNCHANGED <<pc, outcome>>
       ELSE /\ outcome' = Raise("ImportError", <<>>)
            /\ pc' = "failed"
            /\ UNCHANGED call
    /\ UNCHANGED <<environ, pool, _config, _client, pools, sent>>

\* server.py: mcp = FastMCP(...)
CreateServer ==
    /\ pc = "server"
    /\ call.at = Len(SERVER_IMPORTS)
    /\ call' = [call EXCEPT !.at = 0]
    /\ pc' = "registering"
    /\ UNCHANGED <<environ, outcome, pool, _config, _client, pools, sent>>

\* server.py: one @mcp.tool() registers its wrapper
RegisterTool ==
    /\ pc = "registering"
    /\ call.at < Len(MCP_TOOLS)
    /\ call' = [call EXCEPT !.at = @ + 1,
                            !.registered = @ \cup {[name  |-> MCP_TOOLS[call.at + 1][1],
                                                    calls |-> MCP_TOOLS[call.at + 1][2]]}]
    /\ pc' = IF call.at + 1 = Len(MCP_TOOLS) THEN "imported" ELSE pc
    /\ UNCHANGED <<environ, outcome, pool, _config, _client, pools, sent>>

NextServer == BindTool \/ AssignAll \/ ImportTool \/ CreateServer \/ RegisterTool

SpecServer == InitServer /\ [][NextServer]_vars

\* C24: once the server module is imported, the tools package exports exactly
\* 61 tool functions, and these are the functions the server imports and the
\* functions its registered tools call.
C24_ExportsAreRegistered ==
    pc = "imported" =>
        /\ Cardinality(call.exported) = 61
        /\ call.exported = call.imported
        /\ call.exported = {tool.calls : tool \in call.registered}

(***************************************************************************)
(* The specification of concurrent calls on the shared client.  The tasks  *)
(* run on one event loop: a task runs until it awaits something that       *)
(* suspends it.  A tool invocation runs get_client(), _get_client() and    *)
(* the call of client.request() without suspending, is suspended there,    *)
(* and handles the response when it is resumed.  close() tests the handle  *)
(* and calls aclose() without suspending, is suspended while the pool      *)
(* shuts down, and clears the handle when it is resumed.  pc and outcome   *)
(* are per task; call holds what each task does and the number of          *)
(* GitLabClient objects constructed.                                       *)
(***************************************************************************)
MaxTasks == 4

Tasks == 1..MaxTasks

TaskReply == Response(200, Absent, Absent, Absent, NoPagination, JsonBody(JObj([id |-> JNum(7)])))

InitTasks ==
    /\ environ = [GITLAB_TOKEN |-> <<"z">>]
    /\ pc = [t \in Tasks |-> "start"]
    /\ \E does \in [Tasks -> {"request", "close"}] : call = [does |-> does, clients |-> 0]
    /\ outcome = [t \in Tasks |-> NoOutcome]
    /\ pool = "none"
    /\ _config = NoConfig
    /\ _client = FALSE
    /\ pools = <<>>
    /\ sent = <<>>

\* a tool invocation up to its suspension: get_client(), then in _request
\* `await self._get_client()`, which does not suspend, and the call of
\* client.request()
StartRequest(t) ==
    /\ pc[t] = "start"
    /\ call.does[t] = "request"
    /\ \E got \in {get_client(environ, _config, _client)} :
          /\ _config' = got.cell
          /\ _client' = got.exists
          /\ call' = [call EXCEPT !.clients = IF got.exists /\ ~_client THEN @ + 1 ELSE @]
          /\ IF got.outcome.kind = "raise"
             THEN /\ outcome' = [outcome EXCEPT ![t] = got.outcome]
                  /\ pc' = [pc EXCEPT ![t] = "done"]
                  /\ UNCHANGED <<pool, pools, sent>>
             ELSE /\ pool' = _get_client(pool)
                  /\ pools' = _get_client_pools(pool, pools, got.cell)
                  /\ sent' = sent \o client_request(Len(pools'), [task |-> t], TaskReply)
                  /\ pc' = [pc EXCEPT ![t] = "awaiting"]
                  /\ UNCHANGED outcome
    /\ UNCHANGED environ

\* the response arrives: the rest of _request
FinishRequest(t) ==
    /\ pc[t] = "awaiting"
    /\ outcome' = [outcome EXCEPT ![t] = _request(environ, TaskReply)]
    /\ pc' = [pc EXCEPT ![t] = "done"]
    /\ UNCHANGED <<environ, call, pool, _config, _client, pools, sent>>

\* close() on the shared client up to its suspension: with a handle cached,
\* aclose() is called on it, which marks the pool closed and then suspends;
\* with none, close() returns
StartClose(t) ==
    /\ pc[t] = "start"
    /\ call.does[t] = "close"
    /\ _client
    /\ pools' = close_pools(pool, pools)
    /\ IF pool # "none"
       THEN pc' = [pc EXCEPT ![t] = "closing"] /\ UNCHANGED outcome
       ELSE /\ pc' = [pc EXCEPT ![t] = "done"]
            /\ outcome' = [outcome EXCEPT ![t] = Return(None)]
    /\ UNCHANGED <<environ, call, pool, _config, _client, sent>>

\* aclose() has returned: self._client = None
FinishClose(t) ==
    /\ pc[t] = "closing"
    /\ pool' = close(pool)
    /\ pc' = [pc EXCEPT ![t] = "done"]
    /\ outcome' = [outcome EXCEPT ![t] = Return(None)]
    /\ UNCHANGED <<environ, call, _config, _client, pools, sent>>

NextTasks ==
    \E t \in Tasks : StartRequest(t) \/ FinishRequest(t) \/ StartClose(t) \/ FinishClose(t)

SpecTasks == InitTasks /\ [][NextTasks]_vars

\* C25: when every task is a tool invocation, whatever the interleaving, at
\* most one GitLabClient and one pool are constructed, exactly one of each
\* once an invocation has started, and every request goes through that pool.
C25_OneClientOnePool ==
    (\A t \in Tasks : call.does[t] = "request") =>
        /\ call.clients <= 1
        /\ Len(pools) <= 1
        /\ (\E t \in Tasks : pc[t] # "start") => (call.clients = 1 /\ Len(pools) = 1)
        /\ \A i \in DOMAIN sent : sent[i].via = 1
        /\ Len(sent) = Cardinality({t \in Tasks : pc[t] # "start"})

\* C25 witness: all the invocations are suspended at their network call, with
\* one client, one pool, and one request each over it
C25_Witness ==
    /\ \A t \in Tasks : call.does[t] = "request" /\ pc[t] = "awaiting"
    /\ call.clients = 1
    /\ Len(pools) = 1
    /\ Len(sent) = MaxTasks
    /\ \A i \in DOMAIN sent : sent[i].via = 1

\* C28: no request is issued over a pool whose close has begun.
C28_NoRequestOverClosingPool ==
    [][sent' # sent => ~pools'[sent'[Len(sent')].via].closed]_vars

\* C29: every pool ever created is closed or is the one cached in the
\* client, and at most one pool is open.
C29_NoPoolLeaked ==
    /\ \A i \in DOMAIN pools : pools[i].closed \/ (pool # "none" /\ i = Len(pools))
    /\ Cardinality({i \in DOMAIN pools : ~pools[i].closed}) <= 1

(***************************************************************************)
(* The tools that splice a free text of the caller into the request path:  *)
(* a.text is the branch, the tag name, the file path or the wiki slug.     *)
(***************************************************************************)
\* tools/projects.py get_project_branch: the branch is spliced as it is
get_project_branch(env, cell, exists, a) ==
    After(get_client(env, cell, exists),
          Encoded(a.project_id,
                  [method |-> "GET",
                   path   |-> PROJECTS_PATH \o <<"/">>
                              \o encode_project_id(a.project_id).value
                              \o <<"/", "r", "e", "p", "o", "s", "i", "t", "o", "r", "y", "/", "b", "r", "a", "n",
      "c", "h", "e", "s", "/">>
                              \o a.text]))

\* tools/branches.py delete_branch: quote(branch, safe="")
delete_branch(env, cell, exists, a) ==
    After(get_client(env, cell, exists),
          Encoded(a.project_id,
                  [method |-> "DELETE",
                   path   |-> PROJECTS_PATH \o <<"/">>
                              \o encode_project_id(a.project_id).value
                              \o <<"/", "r", "e", "p", "o", "s", "i", "t", "o", "r", "y", "/", "b", "r", "a", "n",
      "c", "h", "e", "s", "/">>
                              \o quote(a.text)]))

\* tools/releases.py get_release: the tag name is spliced as it is
get_release(env, cell, exists, a) ==
    After(get_client(env, cell, exists),
          Encoded(a.project_id,
                  [method |-> "GET",
                   path   |-> PROJECTS_PATH \o <<"/">>
                              \o encode_project_id(a.project_id).value
                              \o <<"/", "r", "e", "l", "e", "a", "s", "e", "s", "/">>
                              \o a.text]))

\* tools/files.py get_file: quote(file_path, safe="")
get_file(env, cell, exists, a) ==
    After(get_client(env, cell, exists),
          Encoded(a.project_id,
                  [method |-> "GET",
                   path   |-> PROJECTS_PATH \o <<"/">>
                              \o encode_project_id(a.project_id).value
                              \o <<"/", "r", "e", "p", "o", "s", "i", "t", "o", "r", "y", "/", "f", "i", "l", "e",
      "s", "/">>
                              \o quote(a.text),
                   params |-> [ref |-> a.ref]]))

\* tools/wiki.py get_wiki_page: quote(slug, safe="")
get_wiki_page(env, cell, exists, a) ==
    After(get_client(env, cell, exists),
          Encoded(a.project_id,
                  [method |-> "GET",
                   path   |-> PROJECTS_PATH \o <<"/">>
                              \o encode_project_id(a.project_id).value
                              \o <<"/", "w", "i", "k", "i", "s", "/">>
                              \o quote(a.text)]))

(***************************************************************************)
(* The specification of the path splices: Init draws one of these tools,   *)
(* a project identifier and a free text; each action is the whole tool     *)
(* call.                                                                   *)
(***************************************************************************)
\* numeric, a path, the dot segments, empty, outside the charset
SplicedIds == {<<"7">>, <<"a", "/", "a">>, <<".">>, <<".", ".">>, <<>>, <<";">>}

\* a name, a name with a slash, the dot segments, a text with a space, a
\* traversal, the empty text
SplicedTexts ==
    {<<"a">>, <<"a", "/", "a">>, <<".">>, <<".", ".">>, <<"a", ".">>, <<"a", " ", "a">>,
     <<".", ".", "/", "a">>, <<>>}

PathTools == {"get_project_branch", "delete_branch", "get_release", "get_file", "get_wiki_page"}

InitPaths ==
    /\ environ = [GITLAB_TOKEN |-> <<"z">>]
    /\ pc = "ready"
    /\ \E op \in PathTools, project_id \in SplicedIds, text \in SplicedTexts,
          reply \in CallReplies :
          call = Tool(op, [project_id |-> project_id, text |-> text, ref |-> <<"H", "E", "A", "D">>], reply)
    /\ outcome = NoOutcome
    /\ pool = "none"
    /\ _config = NoConfig
    /\ _client = FALSE
    /\ pools = <<>>
    /\ sent = <<>>

GetProjectBranch ==
    /\ pc = "ready"
    /\ call.op = "get_project_branch"
    /\ pc' = "done"
    /\ UNCHANGED <<environ, call>>
    /\ \E did \in {get_project_branch(environ, _config, _client, call.args)} : Awaited(did)

DeleteBranch ==
    /\ pc = "ready"
    /\ call.op = "delete_branch"
    /\ pc' = "done"
    /\ UNCHANGED <<environ, call>>
    /\ \E did \in {delete_branch(environ, _config, _client, call.args)} : Awaited(did)

GetRelease ==
    /\ pc = "ready"
    /\ call.op = "get_release"
    /\ pc' = "done"
    /\ UNCHANGED <<environ, call>>
    /\ \E did \in {get_release(environ, _config, _client, call.args)} : Awaited(did)

GetFile ==
    /\ pc = "ready"
    /\ call.op = "get_file"
    /\ pc' = "done"
    /\ UNCHANGED <<environ, call>>
    /\ \E did \in {get_file(environ, _config, _client, call.args)} : Awaited(did)

GetWikiPage ==
    /\ pc = "ready"
    /\ call.op = "get_wiki_page"
    /\ pc' = "done"
    /\ UNCHANGED <<environ, call>>
    /\ \E did \in {get_wiki_page(environ, _config, _client, call.args)} : Awaited(did)

NextPaths == GetProjectBranch \/ DeleteBranch \/ GetRelease \/ GetFile \/ GetWikiPage

SpecPaths == InitPaths /\ [][NextPaths]_vars

\* the segments of a path: what stands between its slashes
RECURSIVE Segments(_)
Segments(path) ==
    IF Find(path, {"/"}) = 0
    THEN <<path>>
    ELSE <<SubSeq(path, 1, Find(path, {"/"}) - 1)>>
         \o Segments(SubSeq(path, Find(path, {"/"}) + 1, Len(path)))

DotSegments == {<<".">>, <<".", ".">>}

\* the number of segments of the tool's path when each spliced value is one
\* segment: "", "projects", the id, the fixed segments, the text
SegmentsOf(op) ==
    CASE op \in {"get_project_branch", "delete_branch", "get_file"} -> 6
      [] op \in {"get_release", "get_wiki_page"} -> 5

\* C30: in the path of every request these tools send, the project identifier
\* and the free text are each exactly one segment, and neither is '.' or
\* '..'.
C30_SplicesAreInertSegments ==
    (pc = "done" /\ call.op \in PathTools) =>
        \A i \in DOMAIN sent :
            LET segments == Segments(sent[i].request.path) IN
            /\ Len(segments) = SegmentsOf(call.op)
            /\ segments[3] \notin DotSegments
            /\ segments[Len(segments)] \notin DotSegments

=============================================================================
